---- MODULE Spec2Model ----
(***************************************************************************)
(* goxtag: decoding of a parsed HTML node tree into annotated Go values.   *)
(*                                                                         *)
(* The decode engine (Unmarshal, UnmarshalSelection, unmarshalByType,      *)
(* unmarshalStruct, unmarshalArray, unmarshalSlice, unmarshalLiteral,      *)
(* findForTypeByTag), the Document accessors and the CannotUnmarshalError  *)
(* chain are modelled as operators over                                    *)
(*   - Go types       records [k |-> kind, ...]                             *)
(*   - Go values      one TLA+ value per type (see Zero)                    *)
(*   - text           sequences of one-character strings                    *)
(*   - selectors      sequences of tokens                                   *)
(*   - nodes          paths from the root of the parsed tree                *)
(* The state machine runs one top-level call: the entry point, then the    *)
(* field loop of the top-level record one iteration per step.              *)
(***************************************************************************)
EXTENDS Integers, Sequences, FiniteSets, TLC

VARIABLES
    dom,        \* the parsed document as the xpath engine sees it
    iface,      \* the destination argument: how it is passed, its type, its value
    entry,      \* which entry point was called ("" before the call)
    parsed,     \* number of times the parser has been invoked
    pc,         \* "idle", "struct" (inside the top-level field loop), "done"
    cur,        \* the Selection the top-level record is decoded against
    fld,        \* index (1-based) of the next field of the top-level record
    last,       \* what the latest field-loop iteration did
    err,        \* the error returned by the call (NoErr while running)
    dec,        \* the Decoder: whether there is one, its err and its topNode
    calls,      \* number of Decode calls made on the Decoder
    vfMut,      \* the goroutine holding the valFunc mutex (NoGoroutine when free)
    vfCache,    \* the valFunc cache: tag -> valFunc (NilFn when absent)
    gor,        \* each goroutine's position in its valFunc call
    lookups     \* the valFunc calls that returned: tag, hit or miss, valFunc

vars == <<dom, iface, entry, parsed, pc, cur, fld, last, err, dec, calls,
          vfMut, vfCache, gor, lookups>>

-----------------------------------------------------------------------------
(* Bounds *)

MaxNodes == 2       \* most nodes a selector matches under one node
MaxCalls == 2       \* most Decode calls made on one Decoder
MaxGoroutines == 2  \* goroutines calling valFunc concurrently
MaxLookups == 4     \* most valFunc calls made in all

-----------------------------------------------------------------------------
(* Text: strings as sequences of characters *)

isSpace(c) == c = " "

RECURSIVE TrimLeft(_)
TrimLeft(s) ==
    IF s # <<>> /\ isSpace(Head(s)) THEN TrimLeft(Tail(s)) ELSE s

RECURSIVE TrimRight(_)
TrimRight(s) ==
    IF s # <<>> /\ isSpace(s[Len(s)])
    THEN TrimRight(SubSeq(s, 1, Len(s) - 1))
    ELSE s

TrimSpace(s) == TrimRight(TrimLeft(s))

DigitVal ==
    ("0" :> 0) @@ ("1" :> 1) @@ ("2" :> 2) @@ ("3" :> 3) @@ ("4" :> 4) @@
    ("5" :> 5) @@ ("6" :> 6) @@ ("7" :> 7) @@ ("8" :> 8) @@ ("9" :> 9)

isDigit(c) == c \in DOMAIN DigitVal

allDigits(s) == \A j \in 1..Len(s) : isDigit(s[j])

RECURSIVE digitsVal(_)
digitsVal(s) ==
    IF s = <<>> THEN 0
    ELSE 10 * digitsVal(SubSeq(s, 1, Len(s) - 1)) + DigitVal[s[Len(s)]]

\* the error value strconv returns: *NumError{Func, Num, Err: ErrSyntax}
NumError(func, s) == [k |-> "NumError", Func |-> func, Num |-> s]

NoErr == [k |-> "nil"]

\* strconv.ParseBool: exactly these twelve literals
ParseBool(s) ==
    IF s \in { <<"1">>, <<"t">>, <<"T">>, <<"T","R","U","E">>,
               <<"t","r","u","e">>, <<"T","r","u","e">> }
    THEN [err |-> NoErr, val |-> TRUE]
    ELSE IF s \in { <<"0">>, <<"f">>, <<"F">>, <<"F","A","L","S","E">>,
                    <<"f","a","l","s","e">>, <<"F","a","l","s","e">> }
    THEN [err |-> NoErr, val |-> FALSE]
    ELSE [err |-> NumError("ParseBool", s), val |-> FALSE]

\* strconv.ParseUint(s, 10, 64): one or more decimal digits, no sign
ParseUint(s) ==
    IF s # <<>> /\ allDigits(s)
    THEN [err |-> NoErr, val |-> digitsVal(s)]
    ELSE [err |-> NumError("ParseUint", s), val |-> 0]

\* strconv.ParseInt(s, 10, 64): optional sign, then decimal digits
ParseInt(s) ==
    LET signed == s # <<>> /\ Head(s) \in {"+", "-"}
        body   == IF signed THEN Tail(s) ELSE s
    IN  IF body # <<>> /\ allDigits(body)
        THEN [err |-> NoErr,
              val |-> IF signed /\ Head(s) = "-" THEN 0 - digitsVal(body)
                      ELSE digitsVal(body)]
        ELSE [err |-> NumError("ParseInt", s), val |-> 0]

\* position of the first "." in s, 0 when there is none
RECURSIVE dotPos(_, _)
dotPos(s, j) ==
    IF j > Len(s) THEN 0 ELSE IF s[j] = "." THEN j ELSE dotPos(s, j + 1)

\* a float64 written without exponent: sign, digits and scale (digits after
\* the point); the value is (neg ? -1 : 1) * mant / 10^scale
FloatZero == [neg |-> FALSE, mant |-> 0, scale |-> 0]

\* strconv.ParseFloat(s, 64), decimal literals without exponent:
\* [sign] digits [ "." [digits] ]  or  [sign] "." digits
ParseFloat(s) ==
    LET signed == s # <<>> /\ Head(s) \in {"+", "-"}
        body   == IF signed THEN Tail(s) ELSE s
        p      == dotPos(body, 1)
        ip     == IF p = 0 THEN body ELSE SubSeq(body, 1, p - 1)
        fp     == IF p = 0 THEN <<>> ELSE SubSeq(body, p + 1, Len(body))
    IN  IF allDigits(ip) /\ allDigits(fp) /\ Len(ip) + Len(fp) > 0
        THEN [err |-> NoErr,
              val |-> [neg   |-> signed /\ Head(s) = "-",
                       mant  |-> digitsVal(ip \o fp),
                       scale |-> Len(fp)]]
        ELSE [err |-> NumError("ParseFloat", s), val |-> FloatZero]

-----------------------------------------------------------------------------
(* Go types (reflect.Type) *)

TBool   == [k |-> "bool"]
TInt    == [k |-> "int"]
TUint   == [k |-> "uint"]
TFloat  == [k |-> "float"]
TString == [k |-> "string"]
TIface  == [k |-> "interface"]                  \* interface{}
TMap    == [k |-> "map"]
TNodes  == [k |-> "slice", elem |-> [k |-> "htmlNode"], nodes |-> TRUE]  \* []*html.Node

TPtr(t)      == [k |-> "ptr", elem |-> t]
TSlice(t)    == [k |-> "slice", elem |-> t, nodes |-> FALSE]
TArray(n, t) == [k |-> "array", len |-> n, elem |-> t]

\* a struct field: its name, its `xpath` tag, its `xpath_required` tag, its type
TField(name, tag, req, t) == [name |-> name, tag |-> tag, req |-> req, t |-> t]

\* a named struct type; um says whether *T has an UnmarshalHTML method and
\* what that method does: "none" (no method), "fail" (ErrorFooBar: always an
\* error) or "atoi" (FooBar: records the call, parses the nodes' text as an
\* integer and returns the parse error, if any)
TStruct(name, fields, um) ==
    [k |-> "struct", name |-> name, fields |-> fields, um |-> um]

ScalarKinds == {"bool", "int", "uint", "float", "string"}

-----------------------------------------------------------------------------
(* Go values *)

\* every value is a record, named after its kind
BoolVal(b)   == [b |-> b]
IntVal(n)    == [i |-> n]
UintVal(n)   == [u |-> n]
StringVal(s) == [s |-> s]
SliceVal(es) == [elems |-> es]
ArrayVal(es) == [arr |-> es]

NilPtr == [nil |-> TRUE]
PtrTo(val) == [nil |-> FALSE, v |-> val]

\* an interface{} holding a string
IfaceString(s) == [nil |-> FALSE, str |-> s]

\* the zero value of a type
RECURSIVE Zero(_)
Zero(t) ==
    CASE t.k = "bool"      -> BoolVal(FALSE)
      [] t.k = "int"       -> IntVal(0)
      [] t.k = "uint"      -> UintVal(0)
      [] t.k = "float"     -> FloatZero
      [] t.k = "string"    -> StringVal(<<>>)
      [] t.k = "interface" -> NilPtr
      [] t.k = "map"       -> NilPtr
      [] t.k = "ptr"       -> NilPtr
      [] t.k = "slice"     -> SliceVal(<<>>)
      [] t.k = "array"     -> ArrayVal([j \in 1..t.len |-> Zero(t.elem)])
      [] t.k = "struct"    -> [called |-> FALSE, nodes |-> <<>>,
                               f |-> [j \in 1..Len(t.fields) |-> Zero(t.fields[j].t)]]

\* a reflect.Value: a type, the value stored there, and whether it is addressable
Value(t, val, addr) == [valid |-> TRUE, t |-> t, val |-> val, addr |-> addr]

\* the zero reflect.Value (reflect.Value{})
InvalidValue == [valid |-> FALSE]

-----------------------------------------------------------------------------
(* Selectors and the parsed document *)

\* selector expressions, as token sequences
sA == <<"a">>                       \* a plain path
sB == <<"b">>                       \* another plain path
sI == <<"a", "[", "1", "]">>        \* a path ending in a numeric index
sT == <<"a", "text()">>             \* a path ending in text()

Selectors == {sA, sB, sI, sT}

\* raw character data found in the document's nodes
Texts == { <<>>, <<" ">>, <<"1">>, <<" ", "-", "3">>, <<"x">>, <<"1", ".", "5">> }

\* html.Node handles: the root is <<>>, the j-th match of selector s under
\* node n is Append(n, <<s, j>>)
Root == <<>>

\* htmlquery.Find(node, selector): the matches under a node, in document order
htmlqueryFind(n, selector) ==
    [j \in 1..dom.cnt[selector] |-> Append(n, <<selector, j>>)]

\* the sum of the match indices on the way from the root to a node
RECURSIVE IdxSum(_)
IdxSum(n) == IF n = <<>> THEN 0 ELSE n[Len(n)][2] + IdxSum(SubSeq(n, 1, Len(n) - 1))

\* the character data below a node (the recursion f of Document.Text): the
\* document gives one text to the root and the nodes of odd index sum, one
\* to the nodes of even index sum
nodeText(n) ==
    IF n = Root \/ IdxSum(n) % 2 = 1 THEN dom.odd ELSE dom.even

newDocumentWithNodes(nodes) == [Nodes |-> nodes, panic |-> FALSE]

newDocumentWithNode(node) == newDocumentWithNodes(<<node>>)

\* what indexing Nodes[0] of an empty Selection produces
Panicked == [Nodes |-> <<>>, panic |-> TRUE]

PanicErr == [k |-> "panic", msg |-> "index out of range"]

Length(doc) == Len(doc.Nodes)

IsEmpty(doc) == Len(doc.Nodes) = 0

RECURSIVE textOf(_)
textOf(nodes) ==
    IF nodes = <<>> THEN <<>> ELSE nodeText(Head(nodes)) \o textOf(Tail(nodes))

Text(doc) == textOf(doc.Nodes)

Find(doc, selector) ==
    IF Len(doc.Nodes) = 0 THEN Panicked
    ELSE newDocumentWithNodes(htmlqueryFind(doc.Nodes[1], selector))

\* the one-result form: the matches, and an error when there are several
FindOneErr == [k |-> "errorString", msg |-> "more than one node"]

FindOne(doc, selector) ==
    LET d == Find(doc, selector)
    IN  IF d.panic THEN [sel |-> d, err |-> PanicErr]
        ELSE IF Length(d) > 1 THEN [sel |-> d, err |-> FindOneErr]
        ELSE [sel |-> d, err |-> NoErr]

\* doc.Nodes[start:end], indices from 0
Slice(doc, start, end) ==
    LET n  == Len(doc.Nodes)
        s0 == IF start < 0 THEN start + n ELSE start
        e0 == IF end < 0 THEN end + n ELSE end
    IN  newDocumentWithNodes(SubSeq(doc.Nodes, s0 + 1, e0))

Eq(doc, index) ==
    LET ix == IF index < 0 THEN index + Len(doc.Nodes) ELSE index
    IN  IF ix >= Len(doc.Nodes) \/ ix < 0
        THEN newDocumentWithNodes(<<>>)
        ELSE Slice(doc, ix, ix + 1)

-----------------------------------------------------------------------------
(* CannotUnmarshalError and its rendering *)

nonPointer             == "non-pointer value"
nodeNotFound           == "node not found in document"
nilDestination         == "destination is nil"
arrayLengthMismatch    == "array length does not match document elements found"
customUnmarshalError   == "a custom Unmarshaler implementation threw an error"
typeConversionError    == "a type conversion error occurred"
mapIsNotSupportedError == "map type is not currently supported"
multipleNodesDetected  == "multiple nodes detected for selector"

NoFld == [t |-> "nil"]
FldName(s) == [t |-> "string", s |-> s]
FldIdx(n) == [t |-> "int", n |-> n]

\* what a frame keeps of the reflect.Value it was built with
VOf(v) == IF v.valid THEN [valid |-> TRUE, t |-> v.t, addr |-> v.addr]
          ELSE InvalidValue

CannotUnmarshalError(cause, val, fldOrIdx, v, reason, xpath) ==
    [k |-> "CannotUnmarshalError", Err |-> cause, Val |-> val,
     FldOrIdx |-> fldOrIdx, V |-> VOf(v), Reason |-> reason, XPath |-> xpath]

IsFrame(e) == e.k = "CannotUnmarshalError"

IsPanic(e) == e.k = "panic"

\* unwind: the frames outermost first, the deepest non-empty Val, the tail
RECURSIVE unwindFrom(_, _)
unwindFrom(e, str) ==
    LET s1 == [str EXCEPT !.chain = Append(@, e),
                          !.val = IF e.Val # <<>> THEN e.Val ELSE @]
    IN  IF e.Err = NoErr THEN s1
        ELSE IF IsFrame(e.Err) THEN unwindFrom(e.Err, s1)
        ELSE [s1 EXCEPT !.tail = e.Err]

unwind(e) == unwindFrom(e, [chain |-> <<>>, val |-> <<>>, tail |-> NoErr])

RECURSIVE tPathFrom(_)
\* tPath collecting the hops from the innermost frame outwards
tPathFrom_leafFirst(chain) ==
    IF chain = <<>> THEN <<>>
    ELSE LET e == Head(chain)
             hop == IF e.FldOrIdx.t = "string"
                    THEN IF ~e.V.valid THEN <<>>     \* not reached: V is a record
                         ELSE IF e.V.t.k = "map"
                              THEN <<[hop |-> "key", s |-> e.FldOrIdx.s]>>
                         ELSE IF e.V.t.k = "struct"
                              THEN <<[hop |-> "field", s |-> e.FldOrIdx.s]>>
                         ELSE <<>>
                    ELSE IF e.FldOrIdx.t = "int"
                    THEN <<[hop |-> "index", n |-> e.FldOrIdx.n]>>
                    ELSE <<>>
         IN  tPathFrom(Tail(chain)) \o hop

tPathFrom(chain) ==
    IF chain = <<>> THEN <<>>
    ELSE LET e == Head(chain)
             hop == IF e.FldOrIdx.t = "string"
                    THEN IF ~e.V.valid THEN <<>>     \* not reached: V is a record
                         ELSE IF e.V.t.k = "map"
                              THEN <<[hop |-> "key", s |-> e.FldOrIdx.s]>>
                         ELSE IF e.V.t.k = "struct"
                              THEN <<[hop |-> "field", s |-> e.FldOrIdx.s]>>
                         ELSE <<>>
                    ELSE IF e.FldOrIdx.t = "int"
                    THEN <<[hop |-> "index", n |-> e.FldOrIdx.n]>>
                    ELSE <<>>
         IN  hop \o tPathFrom(Tail(chain))

tPath(e) == tPathFrom(e.chain)

last_(e) == e.chain[Len(e.chain)]

\* errChain.Error rendering the "into" segment whenever the outermost
\* frame's V is valid, addressable or not
chainError_intoIfValid(e) ==
    LET l == last_(e)
        t == IF l.V.valid THEN [known |-> TRUE, t |-> l.V.t]
             ELSE [known |-> FALSE]
        v == e.chain[1].V
    IN  <<[seg |-> "could not unmarshal "]>>
        \o (IF e.val # <<>> THEN <<[seg |-> "value", val |-> e.val]>> ELSE <<>>)
        \o (IF v.valid
            THEN <<[seg |-> "into", type |-> v.t, path |-> tPath(e),
                    leaf |-> t, reason |-> l.Reason]>>
            ELSE <<>>)
        \o (IF l.XPath # <<>> THEN <<[seg |-> "tag", xpath |-> l.XPath]>> ELSE <<>>)
        \o (IF e.tail # NoErr THEN <<[seg |-> "tail", msg |-> e.tail]>> ELSE <<>>)

\* errChain.Error: the message as its segments, in order
chainError(e) ==
    LET l == last_(e)
        t == IF l.V.valid THEN [known |-> TRUE, t |-> l.V.t]
             ELSE [known |-> FALSE]
        v == e.chain[1].V
    IN  <<[seg |-> "could not unmarshal "]>>
        \o (IF e.val # <<>> THEN <<[seg |-> "value", val |-> e.val]>> ELSE <<>>)
        \o (IF v.valid /\ v.addr
            THEN <<[seg |-> "into", type |-> v.t, path |-> tPath(e),
                    leaf |-> t, reason |-> l.Reason]>>
            ELSE <<>>)
        \o (IF l.XPath # <<>> THEN <<[seg |-> "tag", xpath |-> l.XPath]>> ELSE <<>>)
        \o (IF e.tail # NoErr THEN <<[seg |-> "tail", msg |-> e.tail]>> ELSE <<>>)

\* CannotUnmarshalError.Error
Error(e) == chainError(unwind(e))

-----------------------------------------------------------------------------
(* The decode engine *)

ignoreTag == <<"-">>

xpathTag(tag, required) == [tag |-> tag, required |-> required]

textVal(doc) == TrimSpace(Text(doc))

\* tag.hasIndex: the expression ends in "[", digits, "]"
RECURSIVE digitsThenBracket(_, _)
digitsThenBracket(s, j) ==
    IF j < 1 THEN FALSE
    ELSE IF isDigit(s[j]) THEN digitsThenBracket(s, j - 1)
    ELSE s[j] = "[" /\ j < Len(s) - 1

hasIndex(tag) ==
    LET s == tag.tag
    IN  Len(s) >= 3 /\ s[Len(s)] = "]" /\ digitsThenBracket(s, Len(s) - 1)

hasSuffix(tag, s) == tag.tag # <<>> /\ tag.tag[Len(tag.tag)] = s

errTestUnmarshal == [k |-> "errorString", msg |-> "A wild error appeared"]

\* strconv.Atoi
Atoi(s) ==
    LET p == ParseInt(s)
    IN  IF p.err = NoErr THEN p
        ELSE [err |-> [p.err EXCEPT !.Func = "Atoi"], val |-> 0]

\* the custom hooks of the test types: ErrorFooBar always fails; FooBar
\* records the call and the nodes it is given, finds sB below their first,
\* sets Val to strconv.Atoi of the text found and returns Atoi's error
UnmarshalHTML(recv, nodes) ==
    IF recv.t.um = "fail"
    THEN [err |-> errTestUnmarshal, val |-> recv.val]
    ELSE LET thing == Find(newDocumentWithNodes(nodes), sB)
             a     == Atoi(Text(thing))
         IN  IF thing.panic
             THEN [err |-> PanicErr,
                   val |-> [recv.val EXCEPT !.called = TRUE, !.nodes = nodes]]
             ELSE [err |-> a.err,
                   val |-> [recv.val EXCEPT !.called = TRUE, !.nodes = nodes,
                                            !.f = <<IntVal(a.val)>>]]

\* TypeDeref: the type behind any pointer indirections
RECURSIVE TypeDeref(_)
TypeDeref(t) == IF t.k = "ptr" THEN TypeDeref(t.elem) ELSE t

\* indirect: walk pointers, allocating nil ones, until a value that is not a
\* pointer or whose pointer type implements Unmarshaler.  u is the hook kind
\* found ("none" when there is none), v the value reached (the zero Value
\* when a hook was found), recv the hook's receiver.
RECURSIVE indirect(_)
indirect(v) ==
    IF v.t.k = "ptr"
    THEN indirect(Value(v.t.elem,
                        IF v.val.nil THEN Zero(v.t.elem) ELSE v.val.v,
                        TRUE))
    ELSE IF v.t.k = "struct" /\ v.t.um # "none" /\ v.addr
    THEN [u |-> v.t.um, v |-> InvalidValue, recv |-> v]
    ELSE [u |-> "none", v |-> v, recv |-> InvalidValue]

\* the value of type t whose pointers are all allocated and end at inner
RECURSIVE rebuild(_, _)
rebuild(t, inner) ==
    IF t.k = "ptr" THEN PtrTo(rebuild(t.elem, inner)) ELSE inner

wrapUnmErr(e, v) ==
    IF e = NoErr \/ IsPanic(e) THEN e
    ELSE CannotUnmarshalError(e, <<>>, NoFld, v, customUnmarshalError, <<>>)

findByTag(doc, tag) ==
    IF tag.tag # <<>>
    THEN LET d == Find(doc, tag.tag)
         IN  [sel |-> d, err |-> IF d.panic THEN PanicErr ELSE NoErr]
    ELSE [sel |-> doc, err |-> NoErr]

findOneByTag(doc, tag) ==
    IF tag.tag # <<>> THEN FindOne(doc, tag.tag)
    ELSE [sel |-> doc, err |-> NoErr]

\* findForTypeByTag without the single-match check of scalar kinds
findForTypeByTag_noSingleCheck(doc, v, tag) ==
    IF hasIndex(tag) /\ ~hasSuffix(tag, "text()") THEN findOneByTag(doc, tag)
    ELSE findByTag(doc, tag)

\* findForTypeByTag making the single-match check for a field of any kind
findForTypeByTag_everyKind(doc, v, tag) ==
    LET hasIdx  == hasIndex(tag)
        hasText == hasSuffix(tag, "text()")
        first   == IF hasIdx /\ ~hasText THEN findOneByTag(doc, tag)
                   ELSE findByTag(doc, tag)
    IN  IF first.err # NoErr THEN first
        ELSE IF hasIdx \/ hasText THEN first
        ELSE LET again == findByTag(doc, tag)
             IN  IF again.err # NoErr THEN again
                 ELSE IF Length(again.sel) > 1
                 THEN [sel |-> again.sel,
                       err |-> CannotUnmarshalError(NoErr, <<>>, NoFld, v,
                                                    multipleNodesDetected, tag.tag)]
                 ELSE first

findForTypeByTag(doc, v, tag) ==
    LET hasIdx  == hasIndex(tag)
        hasText == hasSuffix(tag, "text()")
        first   == IF hasIdx /\ ~hasText THEN findOneByTag(doc, tag)
                   ELSE findByTag(doc, tag)
    IN  IF first.err # NoErr THEN first
        ELSE IF v.t.k \in {"struct", "slice", "array", "map", "interface", "ptr"}
        THEN first
        ELSE IF hasIdx \/ hasText THEN first
        ELSE LET again == findByTag(doc, tag)
             IN  IF again.err # NoErr THEN again
                 ELSE IF Length(again.sel) > 1
                 THEN [sel |-> again.sel,
                       err |-> CannotUnmarshalError(NoErr, <<>>, NoFld, v,
                                                    multipleNodesDetected, tag.tag)]
                 ELSE first

\* unmarshalLiteral with the integer branch never treating a parse failure
\* as an error
unmarshalLiteral_lenientInt(s, v, required) ==
    LET trimmedValue == TrimSpace(s)
        keep == [err |-> NoErr, val |-> v.val]
    IN  CASE v.t.k = "interface" -> [err |-> NoErr, val |-> IfaceString(s)]
          [] v.t.k = "bool" ->
                LET p == ParseBool(trimmedValue)
                IN  IF p.err # NoErr THEN [err |-> p.err, val |-> v.val]
                    ELSE [err |-> NoErr, val |-> BoolVal(p.val)]
          [] v.t.k = "int" ->
                IF trimmedValue = <<>> THEN keep
                ELSE LET p == ParseInt(trimmedValue)
                     IN  IF p.err # NoErr
                         THEN keep
                         ELSE [err |-> NoErr, val |-> IntVal(p.val)]
          [] v.t.k = "uint" ->
                IF trimmedValue = <<>> THEN keep
                ELSE LET p == ParseUint(trimmedValue)
                     IN  IF p.err # NoErr
                         THEN IF required THEN [err |-> p.err, val |-> v.val] ELSE keep
                         ELSE [err |-> NoErr, val |-> UintVal(p.val)]
          [] v.t.k = "float" ->
                IF trimmedValue = <<>> THEN keep
                ELSE LET p == ParseFloat(trimmedValue)
                     IN  IF p.err # NoErr
                         THEN IF required THEN [err |-> p.err, val |-> v.val] ELSE keep
                         ELSE [err |-> NoErr, val |-> p.val]
          [] v.t.k = "string" -> [err |-> NoErr, val |-> StringVal(s)]
          [] OTHER -> keep

\* unmarshalLiteral with the integer branch parsing the empty text too
unmarshalLiteral_noEmptyGuard(s, v, required) ==
    LET trimmedValue == TrimSpace(s)
        keep == [err |-> NoErr, val |-> v.val]
    IN  CASE v.t.k = "interface" -> [err |-> NoErr, val |-> IfaceString(s)]
          [] v.t.k = "bool" ->
                LET p == ParseBool(trimmedValue)
                IN  IF p.err # NoErr THEN [err |-> p.err, val |-> v.val]
                    ELSE [err |-> NoErr, val |-> BoolVal(p.val)]
          [] v.t.k = "int" ->
                IF FALSE THEN keep
                ELSE LET p == ParseInt(trimmedValue)
                     IN  IF p.err # NoErr
                         THEN IF required THEN [err |-> p.err, val |-> v.val] ELSE keep
                         ELSE [err |-> NoErr, val |-> IntVal(p.val)]
          [] v.t.k = "uint" ->
                IF trimmedValue = <<>> THEN keep
                ELSE LET p == ParseUint(trimmedValue)
                     IN  IF p.err # NoErr
                         THEN IF required THEN [err |-> p.err, val |-> v.val] ELSE keep
                         ELSE [err |-> NoErr, val |-> UintVal(p.val)]
          [] v.t.k = "float" ->
                IF trimmedValue = <<>> THEN keep
                ELSE LET p == ParseFloat(trimmedValue)
                     IN  IF p.err # NoErr
                         THEN IF required THEN [err |-> p.err, val |-> v.val] ELSE keep
                         ELSE [err |-> NoErr, val |-> p.val]
          [] v.t.k = "string" -> [err |-> NoErr, val |-> StringVal(s)]
          [] OTHER -> keep

unmarshalLiteral(s, v, required) ==
    LET trimmedValue == TrimSpace(s)
        keep == [err |-> NoErr, val |-> v.val]
    IN  CASE v.t.k = "interface" -> [err |-> NoErr, val |-> IfaceString(s)]
          [] v.t.k = "bool" ->
                LET p == ParseBool(trimmedValue)
                IN  IF p.err # NoErr THEN [err |-> p.err, val |-> v.val]
                    ELSE [err |-> NoErr, val |-> BoolVal(p.val)]
          [] v.t.k = "int" ->
                IF trimmedValue = <<>> THEN keep
                ELSE LET p == ParseInt(trimmedValue)
                     IN  IF p.err # NoErr
                         THEN IF required THEN [err |-> p.err, val |-> v.val] ELSE keep
                         ELSE [err |-> NoErr, val |-> IntVal(p.val)]
          [] v.t.k = "uint" ->
                IF trimmedValue = <<>> THEN keep
                ELSE LET p == ParseUint(trimmedValue)
                     IN  IF p.err # NoErr
                         THEN IF required THEN [err |-> p.err, val |-> v.val] ELSE keep
                         ELSE [err |-> NoErr, val |-> UintVal(p.val)]
          [] v.t.k = "float" ->
                IF trimmedValue = <<>> THEN keep
                ELSE LET p == ParseFloat(trimmedValue)
                     IN  IF p.err # NoErr
                         THEN IF required THEN [err |-> p.err, val |-> v.val] ELSE keep
                         ELSE [err |-> NoErr, val |-> p.val]
          [] v.t.k = "string" -> [err |-> NoErr, val |-> StringVal(s)]
          [] OTHER -> keep

RECURSIVE unmarshalByType(_, _, _)
RECURSIVE structField(_, _, _)
RECURSIVE structLoop(_, _, _)
RECURSIVE arrayLoop(_, _, _, _)
RECURSIVE sliceLoop(_, _, _, _, _)

\* fieldTag with the required-override parsed but never applied
fieldTag_ignoreOverride(f) ==
    LET pb == ParseBool(f.req)
    IN  IF f.req # <<>>
        THEN [tag |-> xpathTag(f.tag, TRUE), err |-> pb.err]
        ELSE [tag |-> xpathTag(f.tag, TRUE), err |-> NoErr]

\* the Directive of a field: its selector and its required-override, which
\* defaults to true; err is the boolean-parse error of a malformed override
fieldTag(f) ==
    LET pb == ParseBool(f.req)
    IN  IF f.req # <<>>
        THEN [tag |-> xpathTag(f.tag, pb.val), err |-> pb.err]
        ELSE [tag |-> xpathTag(f.tag, TRUE), err |-> NoErr]

\* emptyPolicy with the required-override ignored: an empty Selection always
\* fails
emptyPolicy_alwaysRequired(v, tag, sel) ==
    IF IsEmpty(sel)
    THEN [skip |-> FALSE,
          err |-> CannotUnmarshalError(NoErr, <<>>, NoFld, v, nodeNotFound, tag.tag)]
    ELSE [skip |-> FALSE, err |-> NoErr]

\* emptyPolicy letting an empty Selection through to the field's decode
emptyPolicy_passEmpty(v, tag, sel) == [skip |-> FALSE, err |-> NoErr]

\* what the field loop does with the Selection found for a field before it
\* decodes: skip the field, fail with nodeNotFound, or go on (neither)
emptyPolicy(v, tag, sel) ==
    IF ~tag.required /\ IsEmpty(sel)
    THEN [skip |-> TRUE, err |-> NoErr]
    ELSE IF IsEmpty(sel)
    THEN [skip |-> FALSE,
          err |-> CannotUnmarshalError(NoErr, <<>>, NoFld, v, nodeNotFound, tag.tag)]
    ELSE [skip |-> FALSE, err |-> NoErr]

\* wrapField returning the field's decode error as it is
wrapField_unwrapped(e, v, f, tag) == e

\* wrapField wrapping frames only: any other error is returned as it is
wrapField_framesOnly(e, v, f, tag) ==
    IF IsPanic(e) \/ ~IsFrame(e) THEN e
    ELSE CannotUnmarshalError(e, <<>>, FldName(f.name), v, typeConversionError, tag.tag)

\* the frame the field loop wraps a field's decode error in
wrapField(e, v, f, tag) ==
    IF IsPanic(e) THEN e
    ELSE CannotUnmarshalError(e, <<>>, FldName(f.name), v, typeConversionError, tag.tag)

\* structField decoding a field with no selector whether or not it has a
\* custom hook: the field is decoded against the record's Selection
structField_decodeUntagged(doc, v, i) ==
    LET f      == v.t.fields[i]
        fv     == Value(f.t, v.val.f[i], v.addr)
        ind    == indirect(fv)
        ft     == fieldTag(f)
        tag    == ft.tag
        found  == findForTypeByTag(doc, fv, tag)
        sel    == found.sel
        policy == emptyPolicy(v, tag, sel)
        r      == unmarshalByType(sel, fv, tag)
        set(x) == [v.val EXCEPT !.f[i] = x]
    IN  IF f.tag = ignoreTag
        THEN [ret |-> FALSE, err |-> NoErr, val |-> v.val]
        ELSE IF ft.err # NoErr
        THEN [ret |-> TRUE, err |-> ft.err, val |-> v.val]
        ELSE IF found.err # NoErr
        THEN [ret |-> TRUE, err |-> found.err, val |-> v.val]
        ELSE IF policy.skip
        THEN [ret |-> FALSE, err |-> NoErr, val |-> v.val]
        ELSE IF policy.err # NoErr
        THEN [ret |-> TRUE, err |-> policy.err, val |-> v.val]
        ELSE IF r.err = NoErr
        THEN [ret |-> FALSE, err |-> NoErr, val |-> set(r.val)]
        ELSE [ret |-> TRUE, err |-> wrapField(r.err, v, f, tag), val |-> set(r.val)]

\* structField handing back a pristine record when the field's decode fails
structField_pristineOnFailure(doc, v, i) ==
    LET f      == v.t.fields[i]
        fv     == Value(f.t, v.val.f[i], v.addr)
        ind    == indirect(fv)
        ft     == fieldTag(f)
        tag    == ft.tag
        found  == findForTypeByTag(doc, fv, tag)
        sel    == found.sel
        policy == emptyPolicy(v, tag, sel)
        r      == unmarshalByType(sel, fv, tag)
        set(x) == [v.val EXCEPT !.f[i] = x]
    IN  IF f.tag = ignoreTag
        THEN [ret |-> FALSE, err |-> NoErr, val |-> v.val]
        ELSE IF f.tag = <<>> /\ ind.u = "none"
        THEN [ret |-> FALSE, err |-> NoErr, val |-> set(rebuild(f.t, ind.v.val))]
        ELSE IF ft.err # NoErr
        THEN [ret |-> TRUE, err |-> ft.err, val |-> v.val]
        ELSE IF found.err # NoErr
        THEN [ret |-> TRUE, err |-> found.err, val |-> v.val]
        ELSE IF policy.skip
        THEN [ret |-> FALSE, err |-> NoErr, val |-> v.val]
        ELSE IF policy.err # NoErr
        THEN [ret |-> TRUE, err |-> policy.err, val |-> v.val]
        ELSE IF r.err = NoErr
        THEN [ret |-> FALSE, err |-> NoErr, val |-> set(r.val)]
        ELSE [ret |-> TRUE, err |-> wrapField(r.err, v, f, tag), val |-> Zero(v.t)]

\* structField walking the field's pointers, allocating the nil ones, before
\* it skips an absent not-required field
structField_allocateFirst(doc, v, i) ==
    LET f      == v.t.fields[i]
        fv     == Value(f.t, v.val.f[i], v.addr)
        ind    == indirect(fv)
        ft     == fieldTag(f)
        tag    == ft.tag
        found  == findForTypeByTag(doc, fv, tag)
        sel    == found.sel
        policy == emptyPolicy(v, tag, sel)
        r      == unmarshalByType(sel, fv, tag)
        set(x) == [v.val EXCEPT !.f[i] = x]
    IN  IF f.tag = ignoreTag
        THEN [ret |-> FALSE, err |-> NoErr, val |-> v.val]
        ELSE IF f.tag = <<>> /\ ind.u = "none"
        THEN [ret |-> FALSE, err |-> NoErr, val |-> set(rebuild(f.t, ind.v.val))]
        ELSE IF ft.err # NoErr
        THEN [ret |-> TRUE, err |-> ft.err, val |-> v.val]
        ELSE IF found.err # NoErr
        THEN [ret |-> TRUE, err |-> found.err, val |-> v.val]
        ELSE IF policy.skip
        THEN [ret |-> FALSE, err |-> NoErr,
              val |-> IF ind.u = "none" THEN set(rebuild(f.t, ind.v.val)) ELSE v.val]
        ELSE IF policy.err # NoErr
        THEN [ret |-> TRUE, err |-> policy.err, val |-> v.val]
        ELSE IF r.err = NoErr
        THEN [ret |-> FALSE, err |-> NoErr, val |-> set(r.val)]
        ELSE [ret |-> TRUE, err |-> wrapField(r.err, v, f, tag), val |-> set(r.val)]

\* structField parsing the required-override before it looks at the selector
structField_overrideFirst(doc, v, i) ==
    LET f      == v.t.fields[i]
        fv     == Value(f.t, v.val.f[i], v.addr)
        ind    == indirect(fv)
        ft     == fieldTag(f)
        tag    == ft.tag
        found  == findForTypeByTag(doc, fv, tag)
        sel    == found.sel
        policy == emptyPolicy(v, tag, sel)
        r      == unmarshalByType(sel, fv, tag)
        set(x) == [v.val EXCEPT !.f[i] = x]
    IN  IF ft.err # NoErr
        THEN [ret |-> TRUE, err |-> ft.err, val |-> v.val]
        ELSE IF f.tag = ignoreTag
        THEN [ret |-> FALSE, err |-> NoErr, val |-> v.val]
        ELSE IF f.tag = <<>> /\ ind.u = "none"
        THEN [ret |-> FALSE, err |-> NoErr, val |-> set(rebuild(f.t, ind.v.val))]
        ELSE IF found.err # NoErr
        THEN [ret |-> TRUE, err |-> found.err, val |-> v.val]
        ELSE IF policy.skip
        THEN [ret |-> FALSE, err |-> NoErr, val |-> v.val]
        ELSE IF policy.err # NoErr
        THEN [ret |-> TRUE, err |-> policy.err, val |-> v.val]
        ELSE IF r.err = NoErr
        THEN [ret |-> FALSE, err |-> NoErr, val |-> set(r.val)]
        ELSE [ret |-> TRUE, err |-> wrapField(r.err, v, f, tag), val |-> set(r.val)]

\* one iteration of the field loop of unmarshalStruct, for field i (from 1):
\* ret says whether the function returned, err what it returned, val the
\* record as the iteration leaves it
structField(doc, v, i) ==
    LET f      == v.t.fields[i]
        fv     == Value(f.t, v.val.f[i], v.addr)
        ind    == indirect(fv)
        ft     == fieldTag(f)
        tag    == ft.tag
        found  == findForTypeByTag(doc, fv, tag)
        sel    == found.sel
        policy == emptyPolicy(v, tag, sel)
        r      == unmarshalByType(sel, fv, tag)
        set(x) == [v.val EXCEPT !.f[i] = x]
    IN  IF f.tag = ignoreTag
        THEN [ret |-> FALSE, err |-> NoErr, val |-> v.val]
        ELSE IF f.tag = <<>> /\ ind.u = "none"
        THEN [ret |-> FALSE, err |-> NoErr, val |-> set(rebuild(f.t, ind.v.val))]
        ELSE IF ft.err # NoErr
        THEN [ret |-> TRUE, err |-> ft.err, val |-> v.val]
        ELSE IF found.err # NoErr
        THEN [ret |-> TRUE, err |-> found.err, val |-> v.val]
        ELSE IF policy.skip
        THEN [ret |-> FALSE, err |-> NoErr, val |-> v.val]
        ELSE IF policy.err # NoErr
        THEN [ret |-> TRUE, err |-> policy.err, val |-> v.val]
        ELSE IF r.err = NoErr
        THEN [ret |-> FALSE, err |-> NoErr, val |-> set(r.val)]
        ELSE [ret |-> TRUE, err |-> wrapField(r.err, v, f, tag), val |-> set(r.val)]

structLoop(doc, v, i) ==
    IF i > Len(v.t.fields) THEN [err |-> NoErr, val |-> v.val]
    ELSE LET s == structField(doc, v, i)
         IN  IF s.ret THEN [err |-> s.err, val |-> s.val]
             ELSE structLoop(doc, [v EXCEPT !.val = s.val], i + 1)

unmarshalStruct(doc, v) == structLoop(doc, v, 1)

\* the element loop of unmarshalArray, from element i (from 0)
arrayLoop(doc, v, tag, i) ==
    IF i >= v.t.len THEN [err |-> NoErr, val |-> v.val]
    ELSE LET r  == unmarshalByType(Eq(doc, i), Value(v.t.elem, v.val.arr[i + 1], v.addr), tag)
             v1 == [v EXCEPT !.val.arr[i + 1] = r.val]
         IN  IF r.err # NoErr
             THEN [err |-> IF IsPanic(r.err) THEN r.err
                           ELSE CannotUnmarshalError(r.err, <<>>, FldIdx(i), v,
                                                     typeConversionError, tag.tag),
                   val |-> v1.val]
             ELSE arrayLoop(doc, v1, tag, i + 1)

\* unmarshalArray rejecting only a Selection that is too short
unmarshalArray_tooShortOnly(doc, v, tag) ==
    IF v.t.len > Len(doc.Nodes)
    THEN [err |-> CannotUnmarshalError(NoErr, <<>>, NoFld, v, arrayLengthMismatch, tag.tag),
          val |-> v.val]
    ELSE arrayLoop(doc, v, tag, 0)

unmarshalArray(doc, v, tag) ==
    IF v.t.len # Len(doc.Nodes)
    THEN [err |-> CannotUnmarshalError(NoErr, <<>>, NoFld, v, arrayLengthMismatch, tag.tag),
          val |-> v.val]
    ELSE arrayLoop(doc, v, tag, 0)

\* sliceLoop decoding every node into one element allocated once: each
\* element starts from the one decoded before it
sliceLoop_sharedElement(doc, slice, v, tag, i) ==
    IF i >= Length(doc) THEN [err |-> NoErr, val |-> v.val]
    ELSE LET eleT == slice.t.elem
             prev == IF v.val.elems = <<>> THEN Zero(TypeDeref(eleT))
                     ELSE IF eleT.k # "ptr" THEN v.val.elems[Len(v.val.elems)]
                     ELSE v.val.elems[Len(v.val.elems)].v
             newV == Value(TPtr(TypeDeref(eleT)), PtrTo(prev), FALSE)
             r    == unmarshalByType(Eq(doc, i), newV, tag)
             ele  == IF eleT.k # "ptr" THEN r.val.v ELSE r.val
         IN  IF r.err # NoErr
             THEN [err |-> IF IsPanic(r.err) THEN r.err
                           ELSE CannotUnmarshalError(r.err, <<>>, FldIdx(i), v,
                                                     typeConversionError, tag.tag),
                   val |-> slice.val]
             ELSE sliceLoop(doc, slice,
                            Value(v.t, SliceVal(Append(v.val.elems, ele)), FALSE),
                            tag, i + 1)

\* the element loop of unmarshalSlice, from node i (from 0): slice is the
\* destination (already cut to length 0), v the local value appended to
sliceLoop(doc, slice, v, tag, i) ==
    IF i >= Length(doc) THEN [err |-> NoErr, val |-> v.val]
    ELSE LET eleT == slice.t.elem
             newV == Value(TPtr(TypeDeref(eleT)), PtrTo(Zero(TypeDeref(eleT))), FALSE)
             r    == unmarshalByType(Eq(doc, i), newV, tag)
             ele  == IF eleT.k # "ptr" THEN r.val.v ELSE r.val
         IN  IF r.err # NoErr
             THEN [err |-> IF IsPanic(r.err) THEN r.err
                           ELSE CannotUnmarshalError(r.err, <<>>, FldIdx(i), v,
                                                     typeConversionError, tag.tag),
                   val |-> slice.val]
             ELSE sliceLoop(doc, slice,
                            Value(v.t, SliceVal(Append(v.val.elems, ele)), FALSE),
                            tag, i + 1)

\* unmarshalSlice without the SetLen(0): elements are appended to what the
\* destination holds, and a failure leaves it as it was
unmarshalSlice_noReset(doc, v, tag) == sliceLoop(doc, v, v, tag, 0)

unmarshalSlice(doc, v, tag) ==
    LET cut == [v EXCEPT !.val = SliceVal(<<>>)]
    IN  sliceLoop(doc, cut, cut, tag, 0)

\* unmarshalByType without the map case: a map goes to unmarshalLiteral
unmarshalByType_mapAsLiteral(doc, v0, tag) ==
    LET ind == indirect(v0)
        v   == ind.v
        out(r) == [err |-> r.err, val |-> rebuild(v0.t, r.val)]
    IN  IF ind.u # "none"
        THEN LET h == UnmarshalHTML(ind.recv, doc.Nodes)
             IN  [err |-> wrapUnmErr(h.err, v), val |-> rebuild(v0.t, h.val)]
        ELSE IF v.t.k = "slice" /\ v.t.nodes
        THEN [err |-> NoErr, val |-> rebuild(v0.t, SliceVal(v.val.elems \o doc.Nodes))]
        ELSE CASE v.t.k = "struct" -> out(unmarshalStruct(doc, v))
               [] v.t.k = "slice"  -> out(unmarshalSlice(doc, v, tag))
               [] v.t.k = "array"  -> out(unmarshalArray(doc, v, tag))
               [] OTHER ->
                    LET str == textVal(doc)
                        l   == unmarshalLiteral(str, v, tag.required)
                    IN  IF l.err # NoErr
                        THEN [err |-> CannotUnmarshalError(l.err, str, NoFld, v,
                                                           typeConversionError, tag.tag),
                              val |-> rebuild(v0.t, l.val)]
                        ELSE [err |-> NoErr, val |-> rebuild(v0.t, l.val)]

unmarshalByType(doc, v0, tag) ==
    LET ind == indirect(v0)
        v   == ind.v
        out(r) == [err |-> r.err, val |-> rebuild(v0.t, r.val)]
    IN  IF ind.u # "none"
        THEN LET h == UnmarshalHTML(ind.recv, doc.Nodes)
             IN  [err |-> wrapUnmErr(h.err, v), val |-> rebuild(v0.t, h.val)]
        ELSE IF v.t.k = "slice" /\ v.t.nodes
        THEN [err |-> NoErr, val |-> rebuild(v0.t, SliceVal(v.val.elems \o doc.Nodes))]
        ELSE CASE v.t.k = "struct" -> out(unmarshalStruct(doc, v))
               [] v.t.k = "slice"  -> out(unmarshalSlice(doc, v, tag))
               [] v.t.k = "array"  -> out(unmarshalArray(doc, v, tag))
               [] v.t.k = "map" ->
                    [err |-> CannotUnmarshalError(NoErr, <<>>, NoFld, v,
                                                  mapIsNotSupportedError, tag.tag),
                     val |-> rebuild(v0.t, v.val)]
               [] OTHER ->
                    LET str == textVal(doc)
                        l   == unmarshalLiteral(str, v, tag.required)
                    IN  IF l.err # NoErr
                        THEN [err |-> CannotUnmarshalError(l.err, str, NoFld, v,
                                                           typeConversionError, tag.tag),
                              val |-> rebuild(v0.t, l.val)]
                        ELSE [err |-> NoErr, val |-> rebuild(v0.t, l.val)]

-----------------------------------------------------------------------------
(* The destinations and documents decoded *)

\* *struct{ A int `xpath:"b"` }, as in TestNotRequired / TestRequiredStruct
Inner == TStruct("Inner", <<TField("A", sB, <<>>, TInt)>>, "none")

\* the test types with a custom UnmarshalHTML
ErrorFooBar == TStruct("ErrorFooBar", <<>>, "fail")
FooBar == TStruct("FooBar", <<TField("Val", sB, <<>>, TInt)>>, "atoi")

\* values of the xpath_required tag: absent, "false", and not a boolean
ReqAbsent == <<>>
ReqFalse  == <<"f", "a", "l", "s", "e">>
ReqBad    == <<"x">>
Reqs == {ReqAbsent, ReqFalse, ReqBad}

\* a nested record whose field carries a malformed required-override
BadInner == TStruct("BadInner", <<TField("A", sB, ReqBad, TInt)>>, "none")

FieldTypes ==
    { TBool, TInt, TUint, TFloat, TString, TIface, TMap, TNodes,
      TPtr(TInt), TPtr(Inner), Inner, BadInner, ErrorFooBar, FooBar, TPtr(FooBar),
      TSlice(TInt), TSlice(TString), TSlice(Inner), TSlice(FooBar),
      TArray(1, TInt), TArray(2, TInt), TArray(2, TString), TArray(2, Inner) }

\* records of one field
Rec1 ==
    { TStruct("R", <<TField("F", sA, req, t)>>, "none") :
        req \in Reqs, t \in FieldTypes }
    \cup
    { TStruct("R", <<TField("F", tag, ReqAbsent, t)>>, "none") :
        tag \in {sI, sT}, t \in {TInt, TString, TBool, TSlice(TInt)} }
    \cup
    { TStruct("R", <<TField("F", tag, req, t)>>, "none") :
        tag \in {<<>>, ignoreTag}, req \in {ReqAbsent, ReqBad},
        t \in {TInt, TMap, Inner, FooBar, TPtr(Inner)} }

\* records of two fields
Rec2 ==
    { TStruct("R", <<TField("F", sA, req, t), TField("G", sB, req2, TInt)>>, "none") :
        req \in Reqs, req2 \in {ReqAbsent, ReqFalse},
        t \in {TInt, TBool, TString, TArray(2, TInt), TSlice(TInt)} }

TopTypes == Rec1 \cup Rec2 \cup FieldTypes

\* the destination arguments: a pointer to a zero value of each type, and for
\* one record type also the value itself, a nil pointer and an untyped nil
Ifaces ==
    { [pass |-> "ptr", t |-> t, val |-> Zero(t)] : t \in TopTypes }
    \cup
    { [pass |-> p, t |-> TStruct("R", <<TField("F", sA, <<>>, TInt)>>, "none")] :
        p \in {"value", "nilptr", "nil"} }

\* the selectors a type's tags name
RECURSIVE SelsOf(_)
SelsOf(t) ==
    CASE t.k \in {"ptr", "array"} -> SelsOf(t.elem)
      [] t.k = "slice" -> IF t.nodes THEN {} ELSE SelsOf(t.elem)
      [] t.k = "struct" ->
            UNION { ({t.fields[j].tag} \cap Selectors) \cup SelsOf(t.fields[j].t) :
                    j \in 1..Len(t.fields) }
      [] OTHER -> {}

\* the documents a destination of type t is decoded from: every number of
\* matches up to MaxNodes for each selector the type names (sA is also the
\* selector of the Selection handed to UnmarshalSelection), every text
Doms(t) ==
    LET used == SelsOf(t) \cup {sA}
    IN  { [cnt |-> [s \in Selectors |-> IF s \in used THEN c[s] ELSE 0],
           odd |-> x[1], even |-> x[2]] :
            c \in [used -> 0..MaxNodes], x \in Texts \X Texts }

-----------------------------------------------------------------------------
(* The valFunc cache of the tag-source version of the engine *)

\* the tags looked up, as text: "a", "a,html", "a,text", "a,[h]", "a,[" and
\* "a,"
Tags ==
    { <<"a">>,
      <<"a", ",", "h", "t", "m", "l">>,
      <<"a", ",", "t", "e", "x", "t">>,
      <<"a", ",", "[", "h", "]">>,
      <<"a", ",", "[">>,
      <<"a", ",">> }

\* strings.Split(s, ","), from position i with the piece read so far
RECURSIVE splitFrom(_, _, _)
splitFrom(s, i, piece) ==
    IF i > Len(s) THEN <<piece>>
    ELSE IF s[i] = "," THEN <<piece>> \o splitFrom(s, i + 1, <<>>)
    ELSE splitFrom(s, i + 1, Append(piece, s[i]))

Split(s) == splitFrom(s, 1, <<>>)

\* the valFuncs: a nil func, textVal, htmlVal and attrFunc(attr)
NilFn == [k |-> "nil", attr |-> <<>>]
textValFn == [k |-> "textVal", attr |-> <<>>]
htmlVal == [k |-> "htmlVal", attr |-> <<>>]
attrFunc(attr) == [k |-> "attrFunc", attr |-> attr]

\* what valFunc does on a cache miss: the valFunc the tag's source names,
\* or a run-time panic (src[0] of an empty source, src[1:0] of "[")
newValFunc(tag) ==
    LET srcArr == Split(tag)
    IN  IF Len(srcArr) < 2 THEN [panic |-> FALSE, f |-> textValFn]
        ELSE LET src == srcArr[2]
             IN  IF src = <<>> THEN [panic |-> TRUE, f |-> NilFn]
                 ELSE IF src[1] = "["
                 THEN IF Len(src) - 1 < 1 THEN [panic |-> TRUE, f |-> NilFn]
                      ELSE [panic |-> FALSE,
                            f |-> attrFunc(SubSeq(src, 2, Len(src) - 1))]
                 ELSE IF src = <<"h", "t", "m", "l">>
                 THEN [panic |-> FALSE, f |-> htmlVal]
                 ELSE [panic |-> FALSE, f |-> textValFn]

Goroutines == 1..MaxGoroutines
NoGoroutine == 0

\* a goroutine that is not inside valFunc, having made n calls
Outside(n) == [pc |-> "idle", tag |-> <<>>, hit |-> FALSE, f |-> NilFn,
               panic |-> FALSE, n |-> n]

\* the mutex free, the cache empty, no goroutine inside valFunc
vfInit ==
    /\ vfMut = NoGoroutine
    /\ vfCache = [t \in Tags |-> NilFn]
    /\ gor = [g \in Goroutines |-> Outside(0)]
    /\ lookups = {}

-----------------------------------------------------------------------------
(* The state machine: one call of an entry point *)

\* the error html.Parse returns when it fails
HtmlParseErr == [k |-> "errorString", msg |-> "html: parse error"]

Idle == [i |-> 0, ret |-> FALSE]

\* no Decoder has been made
NoDecoder == [made |-> FALSE, err |-> NoErr, topNode |-> "nil"]

Init ==
    /\ iface \in Ifaces
    /\ dom \in Doms(iface.t)
    /\ entry = ""
    /\ parsed = 0
    /\ pc = "idle"
    /\ cur = newDocumentWithNodes(<<>>)
    /\ fld = 0
    /\ last = Idle
    /\ err = NoErr
    /\ dec = NoDecoder
    /\ calls = 0
    /\ vfInit

\* how the call ends
Return(e, val) ==
    /\ pc' = "done"
    /\ err' = e
    /\ iface' = IF iface.pass = "ptr" THEN [iface EXCEPT !.val = val] ELSE iface
    /\ UNCHANGED <<cur, fld, last>>

\* Enter testing for nil before testing the kind
Enter_nilFirst(doc) ==
    IF iface.pass \in {"nil", "nilptr"}
    THEN Return(CannotUnmarshalError(NoErr, <<>>, NoFld,
                    IF iface.pass = "nil" THEN InvalidValue
                    ELSE Value(TPtr(iface.t), NilPtr, FALSE),
                    nilDestination, <<>>), NilPtr)
    ELSE IF iface.pass = "value"
    THEN Return(CannotUnmarshalError(NoErr, <<>>, NoFld,
                    Value(iface.t, NilPtr, FALSE), nonPointer, <<>>), NilPtr)
    ELSE LET ind == indirect(Value(TPtr(iface.t), PtrTo(iface.val), FALSE))
         IN  IF ind.u # "none"
             THEN LET h == UnmarshalHTML(ind.recv, doc.Nodes)
                  IN  Return(wrapUnmErr(h.err, ind.v), rebuild(iface.t, h.val))
             ELSE IF iface.t.k = "struct" /\ Len(iface.t.fields) > 0
             THEN /\ pc' = "struct"
                  /\ cur' = doc
                  /\ fld' = 1
                  /\ UNCHANGED <<iface, last, err>>
             ELSE LET r == unmarshalByType(doc, ind.v, xpathTag(<<>>, FALSE))
                  IN  Return(r.err, rebuild(iface.t, r.val))

\* the body of UnmarshalSelection(doc, iface); the field loop of a top-level
\* record is left to StructField
Enter(doc) ==
    IF iface.pass \in {"value", "nil"}
    THEN Return(CannotUnmarshalError(NoErr, <<>>, NoFld,
                    IF iface.pass = "nil" THEN InvalidValue
                    ELSE Value(iface.t, NilPtr, FALSE),
                    nonPointer, <<>>), NilPtr)
    ELSE IF iface.pass = "nilptr"
    THEN Return(CannotUnmarshalError(NoErr, <<>>, NoFld,
                    Value(TPtr(iface.t), NilPtr, FALSE), nilDestination, <<>>), NilPtr)
    ELSE LET ind == indirect(Value(TPtr(iface.t), PtrTo(iface.val), FALSE))
         IN  IF ind.u # "none"
             THEN LET h == UnmarshalHTML(ind.recv, doc.Nodes)
                  IN  Return(wrapUnmErr(h.err, ind.v), rebuild(iface.t, h.val))
             ELSE IF iface.t.k = "struct" /\ Len(iface.t.fields) > 0
             THEN /\ pc' = "struct"
                  /\ cur' = doc
                  /\ fld' = 1
                  /\ UNCHANGED <<iface, last, err>>
             ELSE LET r == unmarshalByType(doc, ind.v, xpathTag(<<>>, FALSE))
                  IN  Return(r.err, rebuild(iface.t, r.val))

\* Unmarshal testing the destination before it parses
Unmarshal_checkFirst ==
    /\ pc = "idle"
    /\ entry' = "Unmarshal"
    /\ UNCHANGED <<dom, dec, calls, vfMut, vfCache, gor, lookups>>
    /\ IF iface.pass # "ptr"
       THEN /\ parsed' = parsed
            /\ Enter(newDocumentWithNode(Root))
       ELSE /\ parsed' = parsed + 1
            /\ \E ok \in BOOLEAN :
                 IF ok THEN Enter(newDocumentWithNode(Root))
                 ELSE Return(HtmlParseErr, iface.val)

\* Unmarshal(bs, v): parse, then decode the root into v
Unmarshal ==
    /\ pc = "idle"
    /\ entry' = "Unmarshal"
    /\ parsed' = parsed + 1
    /\ UNCHANGED <<dom, dec, calls, vfMut, vfCache, gor, lookups>>
    /\ \E ok \in BOOLEAN :
         IF ok THEN Enter(newDocumentWithNode(Root))
         ELSE Return(HtmlParseErr, IF iface.pass = "ptr" THEN iface.val ELSE NilPtr)

\* UnmarshalSelection(doc, iface) called with a Selection of the document
UnmarshalSelection ==
    /\ pc = "idle"
    /\ entry' = "UnmarshalSelection"
    /\ UNCHANGED <<dom, parsed, dec, calls, vfMut, vfCache, gor, lookups>>
    /\ Enter(Find(newDocumentWithNode(Root), sA))

\* one iteration of the field loop of the top-level record
StructField ==
    /\ pc = "struct"
    /\ LET v == Value(iface.t, iface.val, TRUE)
           s == structField(cur, v, fld)
       IN  /\ iface' = [iface EXCEPT !.val = s.val]
           /\ last' = [i |-> fld, ret |-> s.ret]
           /\ err' = s.err
           /\ pc' = IF s.ret \/ fld = Len(iface.t.fields) THEN "done" ELSE "struct"
           /\ fld' = IF s.ret THEN fld ELSE fld + 1
    /\ UNCHANGED <<dom, entry, parsed, cur, dec, calls, vfMut, vfCache, gor, lookups>>

Next == Unmarshal \/ UnmarshalSelection \/ StructField

Spec == Init /\ [][Next]_vars

-----------------------------------------------------------------------------
(* The Decoder: one Decoder and the Decode calls made on it *)

\* the reason of the error Decode returns when its Decoder has no root
documentWasNil == "resulting document was nil"

\* the destinations handed to Decode
DecoderTypes ==
    { TInt, TString, TSlice(TString),
      TStruct("R", <<TField("F", sA, ReqAbsent, TString),
                     TField("G", sB, ReqFalse, TInt)>>, "none") }

DecoderIfaces ==
    { [pass |-> "ptr", t |-> t, val |-> Zero(t)] : t \in DecoderTypes }
    \cup
    { [pass |-> "nilptr", t |-> TInt] }

DecoderInit ==
    /\ iface \in DecoderIfaces
    /\ dom \in Doms(iface.t)
    /\ entry = ""
    /\ parsed = 0
    /\ pc = "idle"
    /\ cur = newDocumentWithNodes(<<>>)
    /\ fld = 0
    /\ last = Idle
    /\ err = NoErr
    /\ dec = NoDecoder
    /\ calls = 0
    /\ vfInit

\* NewDecoder(r): parse the reader, keep the root and the error
NewDecoder ==
    /\ ~dec.made
    /\ parsed' = parsed + 1
    /\ \E ok \in BOOLEAN :
         dec' = IF ok THEN [made |-> TRUE, err |-> NoErr, topNode |-> "root"]
                ELSE [made |-> TRUE, err |-> HtmlParseErr, topNode |-> "nil"]
    /\ UNCHANGED <<dom, iface, entry, pc, cur, fld, last, err, calls, vfMut, vfCache, gor, lookups>>

\* a Decoder that NewDecoder did not make: the zero value of the type
ZeroDecoder ==
    /\ ~dec.made
    /\ dec' = [made |-> TRUE, err |-> NoErr, topNode |-> "nil"]
    /\ UNCHANGED <<dom, iface, entry, parsed, pc, cur, fld, last, err, calls, vfMut, vfCache, gor, lookups>>

\* Decode re-reading its input: the parser runs again on every call
Decode_reparse ==
    /\ dec.made
    /\ pc \in {"idle", "done"}
    /\ calls < MaxCalls
    /\ calls' = calls + 1
    /\ entry' = "Decode"
    /\ parsed' = parsed + 1
    /\ UNCHANGED <<dom, dec, vfMut, vfCache, gor, lookups>>
    /\ IF dec.err # NoErr
       THEN Return(dec.err, IF iface.pass = "ptr" THEN iface.val ELSE NilPtr)
       ELSE IF dec.topNode = "nil"
       THEN Return(CannotUnmarshalError(NoErr, <<>>, NoFld, InvalidValue,
                                        documentWasNil, <<>>),
                   IF iface.pass = "ptr" THEN iface.val ELSE NilPtr)
       ELSE Enter(newDocumentWithNode(Root))

\* Decoder.Decode(dest), on the destination of the call before if there was
\* one
Decode ==
    /\ dec.made
    /\ pc \in {"idle", "done"}
    /\ calls < MaxCalls
    /\ calls' = calls + 1
    /\ entry' = "Decode"
    /\ UNCHANGED <<dom, parsed, dec, vfMut, vfCache, gor, lookups>>
    /\ IF dec.err # NoErr
       THEN Return(dec.err, IF iface.pass = "ptr" THEN iface.val ELSE NilPtr)
       ELSE IF dec.topNode = "nil"
       THEN Return(CannotUnmarshalError(NoErr, <<>>, NoFld, InvalidValue,
                                        documentWasNil, <<>>),
                   IF iface.pass = "ptr" THEN iface.val ELSE NilPtr)
       ELSE Enter(newDocumentWithNode(Root))

DecoderNext == NewDecoder \/ ZeroDecoder \/ Decode \/ StructField

DecoderSpec == DecoderInit /\ [][DecoderNext]_vars

-----------------------------------------------------------------------------
(* Decoding into slices that already hold elements *)

\* what the destination slices hold before the call
PriorInts == SliceVal(<<IntVal(7), IntVal(8), IntVal(9)>>)
PriorStrings == SliceVal(<<StringVal(<<"p">>), StringVal(<<"q">>), StringVal(<<"r">>)>>)

\* a record whose one field is a slice of int
SliceRec(req) == TStruct("R", <<TField("F", sA, req, TSlice(TInt))>>, "none")

\* the destinations: a slice of int, a slice of string, and the record with
\* its field required or not, each already filled
SliceIfaces ==
    { [pass |-> "ptr", t |-> TSlice(TInt), val |-> PriorInts],
      [pass |-> "ptr", t |-> TSlice(TString), val |-> PriorStrings] }
    \cup
    { [pass |-> "ptr", t |-> SliceRec(req),
       val |-> [Zero(SliceRec(req)) EXCEPT !.f[1] = PriorInts]] :
        req \in {ReqAbsent, ReqFalse} }

SliceInit ==
    /\ iface \in SliceIfaces
    /\ dom \in Doms(iface.t)
    /\ entry = ""
    /\ parsed = 0
    /\ pc = "idle"
    /\ cur = newDocumentWithNodes(<<>>)
    /\ fld = 0
    /\ last = Idle
    /\ err = NoErr
    /\ dec = NoDecoder
    /\ calls = 0
    /\ vfInit

\* a Decoder and its Decode calls, all on the same destination
SliceSpec == SliceInit /\ [][DecoderNext]_vars

-----------------------------------------------------------------------------
(* Concurrent valFunc calls on the process-wide cache *)

CacheInit ==
    /\ iface = [pass |-> "ptr", t |-> TString, val |-> Zero(TString)]
    /\ dom = [cnt |-> [s \in Selectors |-> 0], odd |-> <<>>, even |-> <<>>]
    /\ entry = ""
    /\ parsed = 0
    /\ pc = "idle"
    /\ cur = newDocumentWithNodes(<<>>)
    /\ fld = 0
    /\ last = Idle
    /\ err = NoErr
    /\ dec = NoDecoder
    /\ calls = 0
    /\ vfInit

decodeVars == <<dom, iface, entry, parsed, pc, cur, fld, last, err, dec, calls>>

\* the valFunc calls the goroutines 1..g have made
RECURSIVE Made(_)
Made(g) == IF g = 0 THEN 0 ELSE gor[g].n + Made(g - 1)

\* a goroutine's decode calls tag.valFunc()
CallValFunc ==
    /\ \E g \in Goroutines, tag \in Tags :
         /\ gor[g].pc = "idle"
         /\ Made(MaxGoroutines) < MaxLookups
         /\ gor' = [gor EXCEPT ![g] = [pc |-> "lock", tag |-> tag, hit |-> FALSE,
                                       f |-> NilFn, panic |-> FALSE,
                                       n |-> gor[g].n + 1]]
    /\ UNCHANGED <<vfMut, vfCache, lookups>>
    /\ UNCHANGED decodeVars

\* Lock taking the mutex whether or not it is held
Lock_noWait ==
    /\ \E g \in Goroutines :
         /\ gor[g].pc = "lock"
         /\ vfMut' = g
         /\ gor' = [gor EXCEPT ![g].pc = "locked"]
    /\ UNCHANGED <<vfCache, lookups>>
    /\ UNCHANGED decodeVars

\* vfMut.Lock(): blocks while another goroutine holds the mutex
Lock ==
    /\ \E g \in Goroutines :
         /\ gor[g].pc = "lock"
         /\ vfMut = NoGoroutine
         /\ vfMut' = g
         /\ gor' = [gor EXCEPT ![g].pc = "locked"]
    /\ UNCHANGED <<vfCache, lookups>>
    /\ UNCHANGED decodeVars

\* the cache read: a hit returns the cached valFunc
Lookup ==
    /\ \E g \in Goroutines :
         /\ gor[g].pc = "locked"
         /\ LET fn == vfCache[gor[g].tag]
            IN  gor' = IF fn # NilFn
                       THEN [gor EXCEPT ![g].pc = "unlock", ![g].hit = TRUE, ![g].f = fn]
                       ELSE [gor EXCEPT ![g].pc = "miss"]
    /\ UNCHANGED <<vfMut, vfCache, lookups>>
    /\ UNCHANGED decodeVars

\* the miss: the tag's valFunc is made, cached and returned; a panic leaves
\* the cache as it was
Store ==
    /\ \E g \in Goroutines :
         /\ gor[g].pc = "miss"
         /\ LET r == newValFunc(gor[g].tag)
            IN  IF r.panic
                THEN /\ gor' = [gor EXCEPT ![g].pc = "unlock", ![g].panic = TRUE]
                     /\ UNCHANGED vfCache
                ELSE /\ vfCache' = [vfCache EXCEPT ![gor[g].tag] = r.f]
                     /\ gor' = [gor EXCEPT ![g].pc = "unlock", ![g].f = r.f]
    /\ UNCHANGED <<vfMut, lookups>>
    /\ UNCHANGED decodeVars

\* the deferred vfMut.Unlock(), run on return and on panic alike; a call
\* that returned is recorded
Unlock ==
    /\ \E g \in Goroutines :
         /\ gor[g].pc = "unlock"
         /\ vfMut' = NoGoroutine
         /\ lookups' = IF gor[g].panic THEN lookups
                       ELSE lookups \cup {[tag |-> gor[g].tag, hit |-> gor[g].hit,
                                           f |-> gor[g].f]}
         /\ gor' = [gor EXCEPT ![g] = Outside(gor[g].n)]
    /\ UNCHANGED vfCache
    /\ UNCHANGED decodeVars

CacheNext == CallValFunc \/ Lock \/ Lookup \/ Store \/ Unlock

CacheSpec == CacheInit /\ [][CacheNext]_vars

-----------------------------------------------------------------------------
(* Properties *)

\* the field the latest iteration of the top-level field loop was about, the
\* value it has now, and whether its required-override is well-formed
Stepped == last.i # 0
LastField == iface.t.fields[last.i]
LastValue == iface.val.f[last.i]
ReqWellFormed(f) == f.req \in {ReqAbsent, ReqFalse}
Required(f) == f.req = ReqAbsent

\* the top-level field loop narrows its Selection's first node
CanNarrow == ~IsEmpty(cur)

\* C1: a record field whose selector matches no node is skipped, with no
\* error and its zero value kept, when it is marked not required; when it is
\* required (the default), whatever its type, the decode fails with reason
\* nodeNotFound carrying the field's selector.
C1_AbsentFieldPolicy ==
    (/\ Stepped
     /\ CanNarrow
     /\ LastField.tag \in Selectors
     /\ ReqWellFormed(LastField)
     /\ dom.cnt[LastField.tag] = 0)
    => IF Required(LastField)
       THEN /\ last.ret
            /\ pc = "done"
            /\ IsFrame(err)
            /\ err.Reason = nodeNotFound
            /\ err.XPath = LastField.tag
       ELSE /\ ~last.ret
            /\ err = NoErr
            /\ LastValue = Zero(LastField.t)

\* a not-required pointer field whose selector matched nothing was skipped
\* and the decode returned without error
C1_Witness ==
    /\ Stepped
    /\ pc = "done"
    /\ CanNarrow
    /\ LastField.tag = sA
    /\ LastField.req = ReqFalse
    /\ LastField.t = TPtr(Inner)
    /\ dom.cnt[sA] = 0
    /\ err = NoErr

\* C3: a scalar field (bool, int, uint, float, string) whose selector expects
\* a single match (it ends neither in an index nor in text()) and matches
\* more than one node fails with reason multipleNodesDetected carrying the
\* selector, and the field is not written.
C3_MultipleNodes ==
    (/\ Stepped
     /\ CanNarrow
     /\ LastField.t.k \in ScalarKinds
     /\ LastField.tag \in Selectors
     /\ ~hasIndex(xpathTag(LastField.tag, TRUE))
     /\ ~hasSuffix(xpathTag(LastField.tag, TRUE), "text()")
     /\ ReqWellFormed(LastField)
     /\ dom.cnt[LastField.tag] > 1)
    => /\ last.ret
       /\ pc = "done"
       /\ IsFrame(err)
       /\ err.Reason = multipleNodesDetected
       /\ err.XPath = LastField.tag
       /\ LastValue = Zero(LastField.t)

\* an integer field whose selector matched two nodes was rejected
C3_Witness ==
    /\ Stepped
    /\ CanNarrow
    /\ LastField.t = TInt
    /\ LastField.tag = sA
    /\ dom.cnt[sA] = 2
    /\ pc = "done"
    /\ IsFrame(err)
    /\ err.Reason = multipleNodesDetected

\* a call that got past the parser with a usable destination and returned
Decoded == pc = "done" /\ iface.pass = "ptr" /\ err # HtmlParseErr

\* the Selection a top-level call decodes against: the root for Unmarshal,
\* the matches of sA under the root for UnmarshalSelection
TopLen == IF entry = "Unmarshal" THEN 1 ELSE dom.cnt[sA]
TopNode(i) == IF entry = "Unmarshal" THEN Root ELSE Append(Root, <<sA, i>>)

\* the i-th node matched by the latest field's selector
FieldNode(i) == Append(cur.Nodes[1], <<LastField.tag, i>>)

\* the error a field's value was decoded with (the record wraps it)
FieldErr == IF IsFrame(err) THEN err.Err ELSE err

\* the integer a text decodes to where a failed parse is not an error
IntOf(tx) ==
    IF ParseInt(TrimSpace(tx)).err = NoErr
    THEN IntVal(ParseInt(TrimSpace(tx)).val) ELSE IntVal(0)

\* what C2 says of an array of type t decoded against L nodes node(1..L)
\* with outcome e and value val
ArrayLaw(t, L, node(_), e, val) ==
    /\ (IsFrame(e) /\ e.Reason = arrayLengthMismatch) <=> (L # t.len)
    /\ L # t.len => val = Zero(t)
    /\ (e = NoErr /\ t.elem.k = "string")
         => \A i \in 1..t.len :
               val.arr[i] = StringVal(TrimSpace(nodeText(node(i))))
    /\ (e = NoErr /\ t.elem.k = "int")
         => \A i \in 1..t.len : val.arr[i] = IntOf(nodeText(node(i)))

\* C2: a fixed-length sequence of declared length N decoded against a
\* Selection of length L fails with arrayLengthMismatch if and only if
\* L # N, with no element written; when it succeeds element i was decoded
\* from the i-th node of the Selection.
C2_ArrayLength ==
    /\ (Decoded /\ iface.t.k = "array")
         => ArrayLaw(iface.t, TopLen, TopNode, err, iface.val)
    /\ (/\ Stepped
        /\ CanNarrow
        /\ LastField.t.k = "array"
        /\ LastField.tag = sA
        /\ ReqWellFormed(LastField)
        /\ dom.cnt[sA] >= 1)
         => ArrayLaw(LastField.t, dom.cnt[sA], FieldNode, FieldErr, LastValue)

\* a [2]string was filled from two nodes with different texts, in order
C2_Witness ==
    /\ Decoded
    /\ entry = "UnmarshalSelection"
    /\ iface.t = TArray(2, TString)
    /\ dom.cnt[sA] = 2
    /\ dom.odd = <<"1">>
    /\ dom.even = <<"x">>
    /\ err = NoErr
    /\ iface.val = ArrayVal(<<StringVal(<<"1">>), StringVal(<<"x">>)>>)

\* what C4 says of a slice of type t decoded against L nodes node(1..L), its
\* elements required or not, with outcome e and value val
SliceLaw(t, L, node(_), required, e, val) ==
    LET tx(i)  == nodeText(node(i))
        below(i) == Text(Find(newDocumentWithNode(node(i)), sB))
        eleT   == t.elem
        bad(i) ==
            CASE eleT.k = "int" ->
                    /\ required
                    /\ TrimSpace(tx(i)) # <<>>
                    /\ ParseInt(TrimSpace(tx(i))).err # NoErr
              [] eleT = FooBar -> Atoi(below(i)).err # NoErr
              [] eleT = Inner ->
                    \/ dom.cnt[sB] # 1
                    \/ /\ TrimSpace(below(i)) # <<>>
                       /\ ParseInt(TrimSpace(below(i))).err # NoErr
              [] OTHER -> FALSE
        want(i) ==
            CASE eleT.k = "int" -> IntOf(tx(i))
              [] eleT.k = "string" -> StringVal(TrimSpace(tx(i)))
              [] eleT = FooBar ->
                    [Zero(FooBar) EXCEPT !.called = TRUE, !.nodes = <<node(i)>>,
                                         !.f = <<IntVal(Atoi(below(i)).val)>>]
              [] eleT = Inner -> [Zero(Inner) EXCEPT !.f = <<IntOf(below(i))>>]
        bads   == {i \in 1..L : bad(i)}
    IN  IF bads = {}
        THEN /\ e = NoErr
             /\ Len(val.elems) = L
             /\ \A i \in 1..L : val.elems[i] = want(i)
        ELSE /\ IsFrame(e)
             /\ e.Reason = typeConversionError
             /\ e.FldOrIdx = FldIdx((CHOOSE i \in bads : \A j \in bads : i <= j) - 1)
             /\ e.Err # NoErr

\* C4: a growable sequence decoded against n nodes decodes once per node, in
\* document order, each into a fresh element; on success it has exactly n
\* elements and element i is the decode of node i; a failure at node i is
\* wrapped in a frame whose FldOrIdx is i.
C4_SliceElements ==
    /\ (Decoded /\ iface.t.k = "slice" /\ ~iface.t.nodes)
         => SliceLaw(iface.t, TopLen, TopNode, FALSE, err, iface.val)
    /\ (/\ Stepped
        /\ CanNarrow
        /\ LastField.t.k = "slice"
        /\ ~LastField.t.nodes
        /\ LastField.tag = sA
        /\ ReqWellFormed(LastField)
        /\ dom.cnt[sA] >= 1)
         => SliceLaw(LastField.t, dom.cnt[sA], FieldNode, Required(LastField),
                     FieldErr, LastValue)

\* a required []int field decoded its first node and failed at its second
C4_Witness ==
    /\ Stepped
    /\ CanNarrow
    /\ LastField.t = TSlice(TInt)
    /\ LastField.tag = sA
    /\ Required(LastField)
    /\ dom.cnt[sA] = 2
    /\ dom.odd = <<"1">>
    /\ dom.even = <<"x">>
    /\ IsFrame(err)
    /\ IsFrame(err.Err)
    /\ err.Err.FldOrIdx = FldIdx(1)

\* the destination handed in is no pointer, or a nil one
BadDestination == iface.pass # "ptr"

\* C5: a destination that is not a pointer is refused with reason
\* nonPointer and a nil pointer with reason nilDestination; the error is one
\* frame with no cause and nothing is decoded.
C5_BadDestination ==
    (pc = "done" /\ BadDestination /\ err # HtmlParseErr)
      => /\ IsFrame(err)
         /\ err.Reason = IF iface.pass = "nilptr" THEN nilDestination
                         ELSE nonPointer
         /\ err.Err = NoErr
         /\ Len(unwind(err).chain) = 1
         /\ unwind(err).tail = NoErr
         /\ last = Idle
         /\ fld = 0

\* UnmarshalSelection refused an untyped nil as not being a pointer
C5_Witness ==
    /\ pc = "done"
    /\ entry = "UnmarshalSelection"
    /\ iface.pass = "nil"
    /\ IsFrame(err)
    /\ err.Reason = nonPointer

\* C6 as stated: Unmarshal refuses a bad destination without having called
\* the parser, so it returns nonPointer / nilDestination and never a parse
\* failure.
C6_CheckBeforeParse ==
    (pc = "done" /\ entry = "Unmarshal" /\ BadDestination)
      => /\ parsed = 0
         /\ IsFrame(err)
         /\ err.Reason \in {nonPointer, nilDestination}

\* C6 amended: Unmarshal calls the parser first, whatever the destination;
\* a parse failure is returned as it is, and only after a successful parse
\* is a bad destination refused with nonPointer / nilDestination.
\* UnmarshalSelection never parses.
C6_ParseBeforeCheck ==
    /\ entry = "Unmarshal" => parsed = 1
    /\ entry = "UnmarshalSelection" => parsed = 0
    /\ (pc = "done" /\ entry = "Unmarshal" /\ BadDestination)
         => \/ err = HtmlParseErr
            \/ IsFrame(err) /\ err.Reason \in {nonPointer, nilDestination}

\* Unmarshal was given a value instead of a pointer and refused it after
\* the parser had run
C6_Witness ==
    /\ pc = "done"
    /\ entry = "Unmarshal"
    /\ iface.pass = "value"
    /\ parsed = 1
    /\ IsFrame(err)
    /\ err.Reason = nonPointer

\* the segments of a rendered message
Segs(m, kind) == {i \in 1..Len(m) : m[i].seg = kind}

\* a decode that failed in a custom hook
HookFailed ==
    /\ pc = "done"
    /\ IsFrame(err)
    /\ last_(unwind(err)).Reason = customUnmarshalError

\* the Selection a top-level destination's hook is handed
HookDoc ==
    IF entry = "Unmarshal" THEN newDocumentWithNode(Root)
    ELSE Find(newDocumentWithNode(Root), sA)

\* C7: when a custom hook returns an error E the decode returns an error
\* whose innermost frame has reason customUnmarshalError, whose unwound tail
\* is E and whose message holds the destination path and E's message; when
\* the hook returns no error the decode returns none and the destination is
\* not decoded structurally.
C7_HookFailure ==
    /\ HookFailed
         => LET c == unwind(err)
                m == Error(err)
            IN  /\ c.tail # NoErr
                /\ c.tail.k \in {"errorString", "NumError"}
                /\ \E i \in Segs(m, "tail") : m[i].msg = c.tail
                /\ Len(c.chain) > 1
                     => \E i \in Segs(m, "into") :
                           /\ m[i].path = tPath(c)
                           /\ Len(m[i].path) = Len(c.chain) - 1
    /\ (Decoded /\ iface.t = FooBar /\ ~IsEmpty(HookDoc)
           /\ Atoi(Text(Find(HookDoc, sB))).err = NoErr)
         => /\ err = NoErr
            /\ iface.val.called
            /\ iface.val.nodes = HookDoc.Nodes
            /\ iface.val.f = <<IntVal(Atoi(Text(Find(HookDoc, sB))).val)>>

\* the frames a failure with innermost reason r takes when it arises in
\* decoding a value of type t: one for the failure and one for every record
\* or sequence it is nested in below that value; a record's own field loop
\* reports nodeNotFound and multipleNodesDetected without a frame of its own
RECURSIVE Levels(_, _)
Levels(t, r) ==
    CASE t.k = "ptr" -> Levels(t.elem, r)
      [] t.k = "struct" /\ t.um # "none" -> 1
      [] t.k = "struct" /\ t.um = "none" ->
            IF r \in {nodeNotFound, multipleNodesDetected} THEN 1
            ELSE 1 + Levels(t.fields[1].t, r)
      [] t.k = "array" ->
            IF r = arrayLengthMismatch THEN 1 ELSE 1 + Levels(t.elem, r)
      [] t.k = "slice" -> 1 + Levels(t.elem, r)
      [] OTHER -> 1

\* the latest field of the top record failed with a chain of frames (and
\* not with the parse error of a malformed required-override below it)
FieldFailed ==
    /\ Stepped
    /\ last.ret
    /\ IsFrame(err)
    /\ ReqWellFormed(LastField)
    /\ LastField.t # BadInner
    /\ LastField.tag \in {sA, sT}

\* C8 as stated: every failure of a scalar field of the top record is
\* wrapped in a frame carrying the field's name, 2 frames in all.
C8_WrappedAtEveryLevel ==
    (FieldFailed /\ LastField.t.k \in ScalarKinds)
      => /\ Len(unwind(err).chain) = 2
         /\ err.FldOrIdx = FldName(LastField.name)

\* C8 amended: a failure that arises in decoding a value (array length
\* mismatch, map, type conversion, custom hook) is wrapped once per enclosing
\* record or sequence, each wrapper carrying the field name or index and the
\* innermost frame none: d + 1 frames for a failure d levels down.
\* nodeNotFound and multipleNodesDetected come from the record's field loop
\* with no wrapper for the field: a single frame without a field name for a
\* field of the top record.
C8_WrapPerLevel ==
    FieldFailed
      => LET c    == unwind(err).chain
             leaf == c[Len(c)]
             ownPolicy == /\ leaf.Reason \in {nodeNotFound, multipleNodesDetected}
                          /\ leaf.XPath = LastField.tag
         IN  /\ \A i \in 1..(Len(c) - 1) : c[i].FldOrIdx # NoFld
             /\ leaf.FldOrIdx = NoFld
             /\ Len(c) = IF ownPolicy THEN 1
                         ELSE 1 + Levels(LastField.t, leaf.Reason)
             /\ Len(c) > 1 => c[1].FldOrIdx = FldName(LastField.name)

\* a scalar element of a fixed sequence field failed to parse: 3 frames
C8_Witness ==
    /\ FieldFailed
    /\ LastField.t = TArray(2, TInt)
    /\ Len(unwind(err).chain) = 3
    /\ err.FldOrIdx = FldName("F")
    /\ err.Err.FldOrIdx \in {FldIdx(0), FldIdx(1)}
    /\ err.Err.Err.Reason = typeConversionError

\* the strconv parser of a scalar kind
ParseOf(k, tx) ==
    CASE k = "bool" -> ParseBool(tx)
      [] k = "int" -> ParseInt(tx)
      [] k = "uint" -> ParseUint(tx)
      [] k = "float" -> ParseFloat(tx)

\* the trimmed text of the nodes the latest field's selector matches
FieldText == TrimSpace(Text(Find(cur, LastField.tag)))

\* the latest field is a boolean or numeric scalar decoded from text that
\* its kind cannot parse
ScalarUnparsable ==
    /\ Stepped
    /\ CanNarrow
    /\ LastField.t.k \in {"bool", "int", "uint", "float"}
    /\ ReqWellFormed(LastField)
    /\ \/ LastField.tag = sA /\ dom.cnt[sA] = 1
       \/ LastField.tag = sT /\ dom.cnt[sT] >= 1
    /\ ParseOf(LastField.t.k, FieldText).err # NoErr

\* C9: a required boolean or numeric scalar whose non-empty trimmed text
\* does not parse fails with a typeConversionError frame whose Val is the
\* text and whose cause is the parse error; unwound, the chain's val is the
\* text and its tail the parse error.
C9_RequiredParseFailure ==
    (ScalarUnparsable /\ Required(LastField) /\ FieldText # <<>>)
      => /\ last.ret
         /\ IsFrame(err)
         /\ err.FldOrIdx = FldName(LastField.name)
         /\ IsFrame(err.Err)
         /\ err.Err.Reason = typeConversionError
         /\ err.Err.Val = FieldText
         /\ err.Err.Err = ParseOf(LastField.t.k, FieldText).err
         /\ unwind(err).val = FieldText
         /\ unwind(err).tail = ParseOf(LastField.t.k, FieldText).err
         /\ LastValue = Zero(LastField.t)

\* a required int field met the text "x"
C9_Witness ==
    /\ ScalarUnparsable
    /\ Required(LastField)
    /\ LastField.t = TInt
    /\ FieldText = <<"x">>
    /\ unwind(err).val = <<"x">>
    /\ unwind(err).tail = NumError("ParseInt", <<"x">>)

\* C10: a not-required boolean field whose node's trimmed text is no
\* boolean literal (the empty text included) is left at its default and the
\* decode goes on with no error.
C10_BoolParseDropped ==
    (ScalarUnparsable /\ LastField.t.k = "bool" /\ ~Required(LastField))
      => /\ ~last.ret
         /\ err = NoErr
         /\ LastValue = BoolVal(FALSE)

\* C11: a not-required int, uint or float field whose node's trimmed text
\* does not parse for its kind is left at its default and the decode goes on
\* with no error.
C11_NumericParseDropped ==
    (/\ ScalarUnparsable
     /\ LastField.t.k \in {"int", "uint", "float"}
     /\ ~Required(LastField))
      => /\ ~last.ret
         /\ err = NoErr
         /\ LastValue = Zero(LastField.t)

\* a not-required uint field met the text "x" and kept 0
C11_Witness ==
    /\ ScalarUnparsable
    /\ LastField.t = TUint
    /\ ~Required(LastField)
    /\ FieldText = <<"x">>
    /\ ~last.ret
    /\ err = NoErr
    /\ LastValue = UintVal(0)

\* the numeric kinds
NumericKinds == {"int", "uint", "float"}

\* C12: an int, uint or float destination whose text is empty after
\* trimming is left at its default with no error, required or not: as a
\* field of the top record, as the top-level destination and as the
\* elements of a fixed-length sequence field.
C12_EmptyNumericText ==
    /\ (/\ Stepped
        /\ CanNarrow
        /\ LastField.t.k \in NumericKinds
        /\ ReqWellFormed(LastField)
        /\ \/ LastField.tag = sA /\ dom.cnt[sA] = 1
           \/ LastField.tag = sT /\ dom.cnt[sT] >= 1
        /\ FieldText = <<>>)
         => /\ ~last.ret
            /\ err = NoErr
            /\ LastValue = Zero(LastField.t)
    /\ (/\ Decoded
        /\ iface.t.k \in NumericKinds
        /\ TrimSpace(Text(HookDoc)) = <<>>)
         => /\ err = NoErr
            /\ iface.val = Zero(iface.t)
    /\ (/\ Stepped
        /\ CanNarrow
        /\ LastField.t = TArray(2, TInt)
        /\ LastField.tag = sA
        /\ ReqWellFormed(LastField)
        /\ dom.cnt[sA] = 2
        /\ \A i \in 1..2 : TrimSpace(nodeText(FieldNode(i))) = <<>>)
         => /\ ~last.ret
            /\ err = NoErr
            /\ LastValue = Zero(LastField.t)

\* a required int field met a node whose text is one space and kept 0
C12_Witness ==
    /\ Stepped
    /\ CanNarrow
    /\ LastField.t = TInt
    /\ LastField.tag = sA
    /\ Required(LastField)
    /\ dom.cnt[sA] = 1
    /\ dom.odd = <<" ">>
    /\ FieldText = <<>>
    /\ ~last.ret
    /\ err = NoErr
    /\ LastValue = IntVal(0)

\* C13: a field whose selector is the ignore marker "-" is skipped: its
\* value is unchanged, no selector is evaluated for it (an empty Selection
\* does no harm), its required-override is not parsed (a malformed one does
\* no harm) and the decode does not fail on it.
C13_IgnoredField ==
    (Stepped /\ LastField.tag = ignoreTag)
      => /\ ~last.ret
         /\ err = NoErr
         /\ LastValue = Zero(LastField.t)

\* an ignored field with a malformed required-override was stepped over
C13_Witness ==
    /\ Stepped
    /\ LastField.tag = ignoreTag
    /\ LastField.req = ReqBad
    /\ pc = "done"
    /\ err = NoErr

\* the error strconv.ParseBool returns for the malformed required-override
BadOverrideErr == ParseBool(ReqBad).err

\* the latest field of the top record carries a malformed required-override
\* that the field loop gets to: the field is not ignored, and has a selector
\* or a custom hook
BadOverrideHere ==
    /\ Stepped
    /\ LastField.req = ReqBad
    /\ LastField.tag # ignoreTag
    /\ \/ LastField.tag # <<>>
       \/ /\ TypeDeref(LastField.t).k = "struct"
          /\ TypeDeref(LastField.t).um # "none"

\* the latest field of the top record is a nested record, decoded against a
\* non-empty Selection, whose own field carries the malformed override
BadOverrideBelow ==
    /\ Stepped
    /\ CanNarrow
    /\ LastField.t = BadInner
    /\ LastField.tag = sA
    /\ ReqWellFormed(LastField)
    /\ dom.cnt[sA] >= 1

\* C14 as stated: a malformed required-override makes the decode return the
\* raw boolean-parse error, in no frame, at whatever depth the record sits.
C14_RawAtAnyDepth ==
    (BadOverrideHere \/ BadOverrideBelow) => (last.ret /\ err = BadOverrideErr)

\* C14 amended: the record whose field carries the malformed override
\* returns the raw boolean-parse error at once, before any selector is
\* evaluated, leaving that field and the fields after it untouched; the top
\* record returns it in no frame, while a record nested in a field has it
\* wrapped by the enclosing field loop like any other error, the parse error
\* being the tail of the chain.
C14_BadOverride ==
    /\ BadOverrideHere
         => /\ last.ret
            /\ pc = "done"
            /\ err = BadOverrideErr
            /\ \A j \in last.i..Len(iface.t.fields) :
                  iface.val.f[j] = Zero(iface.t.fields[j].t)
    /\ BadOverrideBelow
         => /\ last.ret
            /\ IsFrame(err)
            /\ err.FldOrIdx = FldName(LastField.name)
            /\ err.Reason = typeConversionError
            /\ err.Err = BadOverrideErr
            /\ Len(unwind(err).chain) = 1
            /\ unwind(err).tail = BadOverrideErr
            /\ LastValue = Zero(LastField.t)

\* a nested record's malformed override came back inside the frame of the
\* field that holds the record
C14_Witness ==
    /\ BadOverrideBelow
    /\ IsFrame(err)
    /\ err.FldOrIdx = FldName("F")
    /\ err.Err = BadOverrideErr

\* the latest field of the top record is a pointer with a selector
PtrField ==
    /\ Stepped
    /\ CanNarrow
    /\ LastField.t.k = "ptr"
    /\ LastField.tag = sA
    /\ ReqWellFormed(LastField)

\* C15: a nil pointer field marked not required whose selector matches
\* nothing stays nil, with no error; a pointer field is allocated only when
\* its selector matched.
C15_NilStaysNil ==
    /\ (PtrField /\ ~Required(LastField) /\ dom.cnt[sA] = 0)
         => /\ ~last.ret
            /\ err = NoErr
            /\ LastValue = NilPtr
    /\ (PtrField /\ LastValue # NilPtr) => dom.cnt[sA] >= 1

\* an optional pointer to a nested record found no node and stayed nil
C15_Witness ==
    /\ PtrField
    /\ LastField.t = TPtr(Inner)
    /\ ~Required(LastField)
    /\ dom.cnt[sA] = 0
    /\ pc = "done"
    /\ err = NoErr
    /\ LastValue = NilPtr

\* the latest field of the top record is a map with a selector
MapField ==
    /\ Stepped
    /\ CanNarrow
    /\ LastField.t.k = "map"
    /\ LastField.tag = sA
    /\ ReqWellFormed(LastField)

\* the latest field failed inside the field's frame for being a map
MapRefused ==
    /\ last.ret
    /\ IsFrame(err)
    /\ err.FldOrIdx = FldName(LastField.name)
    /\ IsFrame(err.Err)
    /\ err.Err.Reason = mapIsNotSupportedError
    /\ err.Err.XPath = LastField.tag
    /\ err.Err.Err = NoErr

\* C16 as stated: a map field with a selector fails with
\* mapIsNotSupportedError whether its selector matches or not and whether it
\* is required or not.
C16_MapAlwaysFails == MapField => MapRefused

\* C16 amended: a top-level map destination always fails with
\* mapIsNotSupportedError; a map field with a selector fails with it when
\* the selector matches at least one node, required or not; when the
\* selector matches nothing the absent-field policy decides first: a
\* not-required map field is skipped with no error and a required one fails
\* with nodeNotFound.
C16_MapUnsupported ==
    /\ (Decoded /\ iface.t.k = "map")
         => /\ IsFrame(err)
            /\ err.Reason = mapIsNotSupportedError
            /\ err.Err = NoErr
    /\ (MapField /\ dom.cnt[sA] >= 1) => MapRefused
    /\ (MapField /\ dom.cnt[sA] = 0 /\ ~Required(LastField))
         => (~last.ret /\ err = NoErr)
    /\ (MapField /\ dom.cnt[sA] = 0 /\ Required(LastField))
         => (last.ret /\ IsFrame(err) /\ err.Reason = nodeNotFound)

\* a not-required map field whose selector matched was refused
C16_Witness ==
    /\ MapField
    /\ ~Required(LastField)
    /\ dom.cnt[sA] = 2
    /\ MapRefused

\* a call that returned a chain of frames
Failed == pc = "done" /\ IsFrame(err)

\* the place of a segment in the message format
SegRank(kind) ==
    CASE kind = "could not unmarshal " -> 1
      [] kind = "value" -> 2
      [] kind = "into" -> 3
      [] kind = "tag" -> 4
      [] kind = "tail" -> 5

\* C17 as stated: every rendered message has the "into ... : reason"
\* segment.
C17_IntoAlways == Failed => Segs(Error(err), "into") # {}

\* the outermost frame of the returned error was built with an addressable
\* value: the destination was usable, the failure is not that of the
\* destination's own custom hook, and it is not the failure of an element
\* after the first of a top-level slice
IntoExpected ==
    /\ ~BadDestination
    /\ ~(TypeDeref(iface.t).k = "struct" /\ TypeDeref(iface.t).um # "none")
    /\ ~(/\ TypeDeref(iface.t).k = "slice"
         /\ err.FldOrIdx.t = "int"
         /\ err.FldOrIdx.n >= 1)

\* C17 amended: a rendered message is "could not unmarshal ", then the
\* captured literal if there is one, then the "into" segment, then the leaf
\* frame's selector if it has one, then the tail's message if there is a
\* tail, in this order; the "into" segment (the destination's type, or the
\* scalar field's own type when the record of the destination reports
\* multipleNodesDetected, then path, leaf type and leaf reason) is rendered
\* only when the outermost frame's value is
\* addressable, so it is missing from the nonPointer and nilDestination
\* errors, from the failure of the destination's own custom hook and from
\* the failure of an element after the first of a top-level slice.
C17_MessageForm ==
    Failed
      => LET m == Error(err)
             c == unwind(err)
             l == last_(c)
         IN  /\ m[1].seg = "could not unmarshal "
             /\ \A i \in 1..(Len(m) - 1) : SegRank(m[i].seg) < SegRank(m[i + 1].seg)
             /\ (Segs(m, "value") # {}) <=> (c.val # <<>>)
             /\ \A i \in Segs(m, "value") : m[i].val = c.val
             /\ (Segs(m, "tag") # {}) <=> (l.XPath # <<>>)
             /\ \A i \in Segs(m, "tag") : m[i].xpath = l.XPath
             /\ (Segs(m, "tail") # {}) <=> (c.tail # NoErr)
             /\ \A i \in Segs(m, "tail") : m[i].msg = c.tail
             /\ (Segs(m, "into") # {}) <=> IntoExpected
             /\ \A i \in Segs(m, "into") :
                   /\ m[i].type = IF err.Reason = multipleNodesDetected
                                  THEN l.V.t ELSE TypeDeref(iface.t)
                   /\ err.Reason = multipleNodesDetected
                        => m[i].type.k \in ScalarKinds
                   /\ m[i].path = tPath(c)
                   /\ m[i].reason = l.Reason
                   /\ m[i].leaf = IF l.V.valid THEN [known |-> TRUE, t |-> l.V.t]
                                  ELSE [known |-> FALSE]

\* the failure of the destination's own custom hook renders as
\* "could not unmarshal : A wild error appeared"
C17_Witness ==
    /\ Failed
    /\ iface.t = ErrorFooBar
    /\ Error(err) = <<[seg |-> "could not unmarshal "],
                      [seg |-> "tail", msg |-> errTestUnmarshal]>>

\* the path of the rendered message of the returned error
RenderedPath ==
    LET m == Error(err)
    IN  m[CHOOSE i \in Segs(m, "into") : TRUE].path

FieldHop(name) == [hop |-> "field", s |-> name]
IndexHop(n) == [hop |-> "index", n |-> n]

\* the latest field's own absence or multiplicity was reported
OwnPolicyFailure ==
    /\ err.Reason \in {nodeNotFound, multipleNodesDetected}
    /\ err.XPath = LastField.tag
    /\ err.FldOrIdx = NoFld

\* the first node (from 1) of the latest field's selector whose text a
\* required int element cannot take
FirstBadInt ==
    LET bad == {i \in 1..dom.cnt[sA] :
                  /\ TrimSpace(nodeText(FieldNode(i))) # <<>>
                  /\ ParseInt(TrimSpace(nodeText(FieldNode(i)))).err # NoErr}
    IN  CHOOSE i \in bad : \A j \in bad : i <= j

\* C18 as stated: the rendered path of a failure of a field of the top
\* record starts with the field's name, also for nodeNotFound and
\* multipleNodesDetected.
C18_PathNamesField ==
    FieldFailed
      => /\ Segs(Error(err), "into") # {}
         /\ RenderedPath # <<>>
         /\ RenderedPath[1] = FieldHop(LastField.name)

\* C18 amended: the rendered path has one hop per wrapping frame, root to
\* leaf, '.Name' for a record's frame and '[i]' for a sequence's: '.F' for a
\* scalar field F that fails to convert, '.F[i]' for element i of a sequence
\* field F.  nodeNotFound and multipleNodesDetected are reported with no
\* wrapping frame for the field, so their path does not name the failing
\* field: it is empty for a field of the top record.
C18_PathHops ==
    FieldFailed
      => /\ Segs(Error(err), "into") # {}
         /\ Len(RenderedPath) = Len(unwind(err).chain) - 1
         /\ OwnPolicyFailure => RenderedPath = <<>>
         /\ ~OwnPolicyFailure => RenderedPath[1] = FieldHop(LastField.name)
         /\ (~OwnPolicyFailure /\ LastField.t.k \in ScalarKinds)
              => RenderedPath = <<FieldHop(LastField.name)>>
         /\ (/\ ~OwnPolicyFailure
             /\ LastField.t \in {TArray(2, TInt), TSlice(TInt)}
             /\ LastField.tag = sA
             /\ err.Err.Reason # arrayLengthMismatch)
              => RenderedPath = <<FieldHop(LastField.name),
                                  IndexHop(FirstBadInt - 1)>>

\* the second element of a [2]int field failed: the path is .F[1]
C18_Witness ==
    /\ FieldFailed
    /\ LastField.t = TArray(2, TInt)
    /\ RenderedPath = <<FieldHop("F"), IndexHop(1)>>

\* the top record has the two fields F and G, and the loop got to G
AtSecondField ==
    /\ Stepped
    /\ CanNarrow
    /\ last.i = 2
    /\ ReqWellFormed(iface.t.fields[1])

\* what the decode of field F (selector sA) of the two-field record leaves
\* in F when it does not fail
FirstFieldDecoded ==
    LET F  == iface.t.fields[1]
        tx == TrimSpace(Text(Find(cur, sA)))
        n  == dom.cnt[sA]
        node(i) == Append(cur.Nodes[1], <<sA, i>>)
    IN  IF n = 0 THEN Zero(F.t)
        ELSE CASE F.t = TString -> StringVal(tx)
               [] F.t = TInt -> IntOf(tx)
               [] F.t = TBool -> BoolVal(ParseBool(tx).val)
               [] F.t = TSlice(TInt) ->
                     SliceVal([i \in 1..n |-> IntOf(nodeText(node(i)))])
               [] F.t = TArray(2, TInt) ->
                     ArrayVal([i \in 1..2 |-> IntOf(nodeText(node(i)))])

\* C19: there is no rollback.  When the record's decode fails at its second
\* field, the first keeps the value it was decoded to; when it fails at its
\* first field, the second is untouched; when a fixed-length sequence field
\* fails at its second element, the first element keeps its decoded value.
C19_NoRollback ==
    /\ (AtSecondField /\ last.ret)
         => iface.val.f[1] = FirstFieldDecoded
    /\ (Stepped /\ last.i = 1 /\ last.ret /\ Len(iface.t.fields) = 2)
         => iface.val.f[2] = Zero(iface.t.fields[2].t)
    /\ (/\ FieldFailed
        /\ LastField.t = TArray(2, TInt)
        /\ LastField.tag = sA
        /\ ~OwnPolicyFailure
        /\ err.Err.Reason # arrayLengthMismatch
        /\ FirstBadInt = 2)
         => LastValue = ArrayVal(<<IntOf(nodeText(FieldNode(1))), IntVal(0)>>)

\* the record failed at G for want of a node while F had been decoded to
\* the text "x"
C19_Witness ==
    /\ AtSecondField
    /\ last.ret
    /\ err.Reason = nodeNotFound
    /\ iface.t.fields[1].t = TString
    /\ iface.val.f[1] = StringVal(<<"x">>)

\* a Decode call has returned
Decoded1 == entry = "Decode" /\ pc = "done"

\* the Decoder's parse went well and left a root
Healthy == dec.made /\ dec.err = NoErr /\ dec.topNode = "root"

\* what holds of every state of a Decoder's life
DecoderState ==
    /\ parsed <= 1
    /\ parsed = 1 <=> (dec.made /\ (dec.topNode = "root" \/ dec.err # NoErr))
    /\ (Decoded1 /\ dec.err # NoErr)
         => /\ err = dec.err
            /\ iface.pass = "ptr" => iface.val = Zero(iface.t)
    /\ (Decoded1 /\ dec.err = NoErr /\ dec.topNode = "nil")
         => /\ IsFrame(err)
            /\ err.Reason = documentWasNil
            /\ err.Err = NoErr
            /\ iface.pass = "ptr" => iface.val = Zero(iface.t)
    /\ (entry = "Decode" /\ Healthy /\ iface.t.k = "struct" /\ iface.pass = "ptr")
         => cur = newDocumentWithNode(Root)
    /\ (Decoded1 /\ Healthy /\ iface.pass = "nilptr")
         => (IsFrame(err) /\ err.Reason = nilDestination)
    /\ (Decoded1 /\ Healthy /\ iface.pass = "ptr" /\ iface.t = TString)
         => (err = NoErr /\ iface.val = StringVal(TrimSpace(dom.odd)))
    /\ (Decoded1 /\ Healthy /\ iface.pass = "ptr" /\ iface.t = TInt)
         => (err = NoErr /\ iface.val = IntOf(dom.odd))
    /\ (Decoded1 /\ Healthy /\ iface.pass = "ptr" /\ iface.t = TSlice(TString))
         => /\ err = NoErr
            /\ iface.val = SliceVal(<<StringVal(TrimSpace(dom.odd))>>)
    /\ (Decoded1 /\ Healthy /\ iface.pass = "ptr" /\ iface.t.k = "struct")
         => /\ err = NoErr => dom.cnt[sA] = 1
            /\ dom.cnt[sA] = 1 => iface.val.f[1] = StringVal(TrimSpace(dom.odd))
            /\ dom.cnt[sA] = 0 => err.Reason = nodeNotFound
            /\ dom.cnt[sA] > 1 => err.Reason = multipleNodesDetected

\* C20: a Decoder parses once, at construction; no Decode call parses again
\* or changes the stored root or error; every call decodes against that
\* root; after a failed parse every call returns the parse error and leaves
\* the destination alone; a Decoder with no root and no error returns the
\* "resulting document was nil" error.
C20_DecoderParsesOnce ==
    /\ []DecoderState
    /\ [][dec.made => (dec' = dec /\ parsed' = parsed /\ dom' = dom)]_vars

\* the second Decode call on a Decoder whose one parse went well returned
\* the root's text
C20_Witness ==
    /\ Decoded1
    /\ calls = 2
    /\ Healthy
    /\ parsed = 1
    /\ iface.pass = "ptr"
    /\ iface.t = TString
    /\ dom.odd = <<"x">>
    /\ iface.val = StringVal(<<"x">>)


\* the latest field of the top record has no selector
UntaggedHere == Stepped /\ LastField.tag = <<>>

\* the latest field's type, behind its pointers, has a custom hook
HasHook(f) == TypeDeref(f.t).k = "struct" /\ TypeDeref(f.t).um # "none"

\* C21 as stated: a field with no selector is decoded against the parent's
\* Selection, a nested record recursively and a custom-decodable field by
\* its hook.
C21_UntaggedDecoded ==
    (UntaggedHere /\ CanNarrow /\ LastField.req = ReqAbsent
       /\ TypeDeref(LastField.t).k = "struct")
      => LastValue = unmarshalByType(cur, Value(LastField.t, Zero(LastField.t), TRUE),
                                     xpathTag(<<>>, TRUE)).val

\* C21: a field with no selector is decoded only when its type has a custom
\* hook, and then the hook is handed the parent's node list unchanged; a
\* field with no selector and no hook (a nested record included) is skipped:
\* nothing of it is decoded, its required-override is not parsed and the
\* decode does not fail on it.
C21_UntaggedField ==
    UntaggedHere
      => IF HasHook(LastField)
         THEN (CanNarrow /\ LastField.req = ReqAbsent)
                => /\ LastValue.called
                   /\ LastValue.nodes = cur.Nodes
                   /\ LastValue = UnmarshalHTML(Value(LastField.t, Zero(LastField.t), TRUE),
                                                cur.Nodes).val
         ELSE /\ ~last.ret
              /\ err = NoErr
              /\ LastValue = rebuild(LastField.t, Zero(TypeDeref(LastField.t)))

\* a nested record with no selector was skipped although the parent's node
\* has a node its field selects, holding an integer
C21_Witness ==
    /\ UntaggedHere
    /\ LastField.t = Inner
    /\ entry = "Unmarshal"
    /\ dom.cnt[sB] = 1
    /\ dom.odd = <<"1">>
    /\ pc = "done"
    /\ LastValue = Zero(Inner)


\* the goroutines between Lock and Unlock, where the cache is read and written
InCritical == { g \in Goroutines : gor[g].pc \in {"locked", "miss", "unlock"} }

\* the cache changes only in a step of the goroutine holding the mutex
LockedWrite ==
    vfCache' # vfCache
      => /\ vfMut # NoGoroutine
         /\ vfMut' = vfMut
         /\ gor[vfMut].pc = "miss"
         /\ \A g \in Goroutines \ {vfMut} : gor'[g] = gor[g]

\* C22: the valFunc cache is read and written only by the goroutine holding
\* vfMut, so at most one goroutine is between Lock and Unlock at a time; and
\* for every tag all the calls that returned, hits and misses alike and in
\* any interleaving, returned the same valFunc, which is the one cached.
C22_CacheLocked ==
    /\ [](/\ Cardinality(InCritical) <= 1
          /\ \A g \in InCritical : vfMut = g
          /\ \A a, b \in lookups : a.tag = b.tag => a.f = b.f
          /\ \A a \in lookups : a.f # NilFn /\ vfCache[a.tag] = a.f)
    /\ [][LockedWrite]_vars

\* an attribute tag was looked up twice, a miss and then a hit, while the
\* other goroutine waits for the mutex
C22_Witness ==
    /\ \E a, b \in lookups :
         /\ a.tag = <<"a", ",", "[", "h", "]">>
         /\ b.tag = a.tag
         /\ ~a.hit
         /\ b.hit
         /\ a.f = attrFunc(<<"h">>)
    /\ \E g, h \in Goroutines : gor[g].pc = "lock" /\ gor[h].pc = "miss"


\* the decode failed with a multipleNodesDetected frame, at any depth of the
\* chain, for the latest field's own selector
OwnMultipleNodes ==
    /\ IsFrame(err)
    /\ \E j \in 1..Len(unwind(err).chain) :
         /\ unwind(err).chain[j].Reason = multipleNodesDetected
         /\ unwind(err).chain[j].XPath = LastField.tag

\* the texts of the nodes the latest field's selector matches, from match i
\* (from 1) on, one after the other
RECURSIVE MatchedText(_)
MatchedText(i) ==
    IF i > dom.cnt[LastField.tag] THEN <<>>
    ELSE nodeText(FieldNode(i)) \o MatchedText(i + 1)

\* C23: a field fails with multipleNodesDetected for its selector only when
\* it is of scalar kind, its selector ends neither in an index [n] nor in
\* text(), and the selector matches more than one node: fields of record,
\* sequence, array, map, interface or pointer kind never do; and a scalar
\* field whose selector ends in text() and matches several nodes decodes the
\* concatenation of their texts.  (What Document.FindOne reports for an
\* indexed selector with several matches is returned as it is and is not
\* judged here.)
C23_SingleMatchScope ==
    (Stepped /\ CanNarrow /\ LastField.tag \in Selectors /\ err # FindOneErr)
      => /\ OwnMultipleNodes
              => /\ LastField.t.k \in ScalarKinds
                 /\ ~hasIndex(xpathTag(LastField.tag, TRUE))
                 /\ ~hasSuffix(xpathTag(LastField.tag, TRUE), "text()")
                 /\ dom.cnt[LastField.tag] > 1
         /\ (/\ hasSuffix(xpathTag(LastField.tag, TRUE), "text()")
             /\ dom.cnt[LastField.tag] > 1
             /\ ReqWellFormed(LastField))
              => /\ LastField.t = TString
                      => /\ err = NoErr
                         /\ LastValue = StringVal(TrimSpace(MatchedText(1)))
                 /\ (LastField.t = TInt
                       /\ ParseInt(TrimSpace(MatchedText(1))).err = NoErr)
                      => /\ err = NoErr
                         /\ LastValue = IntVal(ParseInt(TrimSpace(MatchedText(1))).val)

\* a string field whose selector ends in text() matched two nodes of
\* different text and holds both texts
C23_Witness ==
    /\ Stepped
    /\ LastField.t = TString
    /\ LastField.tag = sT
    /\ entry = "Unmarshal"
    /\ dom.cnt[sT] = 2
    /\ dom.odd = <<"1">>
    /\ dom.even = <<"x">>
    /\ err = NoErr
    /\ Len(LastValue.s) = 2


\* the call was started from the parsed root: Unmarshal or Decoder.Decode
FromRoot == entry \in {"Unmarshal", "Decode"}

\* C24: in a decode started from Unmarshal or Decoder.Decode no Find reads
\* the first node of an empty Selection: the decode never panics, the top
\* record's field loop narrows the Selection of the root alone, and a custom
\* hook of a field is handed at least one node.
C24_NoEmptyNarrowing ==
    FromRoot
      => /\ ~IsPanic(err)
         /\ pc = "struct" => cur = newDocumentWithNode(Root)
         /\ (Stepped /\ LastField.t = FooBar /\ LastValue.called)
              => LastValue.nodes # <<>>

\* a required nested record whose selector matched no node was rejected
\* with nodeNotFound before its fields were narrowed
C24_Witness ==
    /\ FromRoot
    /\ Stepped
    /\ LastField.t = Inner
    /\ LastField.tag = sA
    /\ dom.cnt[sA] = 0
    /\ pc = "done"
    /\ IsFrame(err)
    /\ err.Reason = nodeNotFound
    /\ LastValue = Zero(Inner)


\* the nodes a top-level slice is decoded against
TopSliceNodes ==
    IF entry = "UnmarshalSelection" THEN dom.cnt[sA] ELSE 1

\* the decode got to the top-level slice: it ended well or at an element
TopSliceDecoded ==
    /\ pc = "done"
    /\ iface.t.k = "slice"
    /\ err = NoErr \/ (IsFrame(err) /\ err.Reason = typeConversionError)

\* no element is one the slice held before the call
NoPrior(val) ==
    \A j \in 1..Len(val.elems) :
        /\ val.elems[j] \notin {PriorInts.elems[i] : i \in 1..Len(PriorInts.elems)}
        /\ val.elems[j] \notin {PriorStrings.elems[i] : i \in 1..Len(PriorStrings.elems)}

\* the error is the one the latest field-loop iteration ended with
FieldResult ==
    IF last.ret THEN IsFrame(err) /\ err.Reason \in {typeConversionError, nodeNotFound}
    ELSE err = NoErr

\* C25: a slice destination is cut to length 0 before its elements are
\* decoded: after a decode of it against n nodes that succeeds it holds
\* exactly n elements, none of them one it held before, also when the same
\* destination is decoded into again; after a decode that fails at an
\* element it has length 0.  A slice field that is not decoded (no node
\* matched) keeps what it held.
C25_SliceReset ==
    /\ TopSliceDecoded
         => IF err = NoErr
            THEN Len(iface.val.elems) = TopSliceNodes /\ NoPrior(iface.val)
            ELSE err.FldOrIdx.t = "int" /\ iface.val.elems = <<>>
    /\ (Stepped /\ CanNarrow /\ iface.t.k = "struct" /\ LastField.t.k = "slice"
          /\ LastField.tag = sA /\ ReqWellFormed(LastField) /\ FieldResult)
         => IF dom.cnt[sA] = 0 THEN LastValue = PriorInts
            ELSE IF ~last.ret
            THEN Len(LastValue.elems) = dom.cnt[sA] /\ NoPrior(LastValue)
            ELSE err.Err.FldOrIdx.t = "int" /\ LastValue.elems = <<>>

\* the second Decode into a record whose slice field held three elements
\* failed again at the second of two nodes, the field left empty
C25_Witness ==
    /\ entry = "Decode"
    /\ calls = 2
    /\ pc = "done"
    /\ Stepped
    /\ LastField.t = TSlice(TInt)
    /\ dom.cnt[sA] = 2
    /\ last.ret
    /\ IsFrame(err)
    /\ err.Reason = typeConversionError
    /\ err.Err.FldOrIdx = FldIdx(1)
    /\ LastValue.elems = <<>>

====
